---- MODULE Spec2Model ----
(***************************************************************************)
(* A model of garmy's local-database synchronisation core:                 *)
(*   - ActivitiesIterator (localdb/activities_iterator.py)                  *)
(*   - HealthDB            (localdb/db.py)                                  *)
(*   - SyncManager         (localdb/sync.py)                                *)
(* One user's partition of the store is modelled: every query and write of *)
(* HealthDB filters on user_id, so users do not interact.                   *)
(***************************************************************************)
EXTENDS Integers, Sequences, FiniteSets, TLC

\* Python's None, for optional dates, values and activities.
None == 0

\* ---- bounds of the model ------------------------------------------------
\* calendar days are 1..NumDates (a larger number is a later day)
NumDates == 3
\* the longest remote activities list
MaxActivities == 3
\* SyncConfig.activities_batch_size, scaled down from 50
BatchSize == 2
\* the number of get_activities_for_date calls between two resets
MaxCalls == 3

Dates == 1..NumDates

VARIABLES
    \* ---- the vendor's activities list (environment) ----
    remote_activities,   \* the paginated list, newest first
    list_fails,          \* the offsets at which a list request raises
    \* ---- ActivitiesIterator ----
    iterator,            \* the iterator's fields, or NoIterator
    \* ---- observation of the iterator's use ----
    it_calls,            \* the dates asked for since the last reset
    it_returned,         \* concatenation of the lists returned since then
    it_last,             \* the list the last call returned
    it_requests,         \* the offsets of the list requests since the last reset
    it_session,          \* how this session began: "new", "initialize", "reset"
    it_reset_from        \* batch_offset just before the last reset

iterVars == <<remote_activities, list_fails, iterator,
              it_calls, it_returned, it_last, it_requests,
              it_session, it_reset_from>>

VARIABLES
    \* ---- HealthDB: the tables of one user ----
    db,                    \* a record of tables, each a function key -> row
    \* ---- observation of direct store_health_metric calls ----
    hm_prev,               \* the call before the last one
    hm_last                \* the last call: its date and keyword arguments

storeVars == <<db>>
hmVars == <<hm_prev, hm_last>>

VARIABLES
    \* ---- the vendor's per-date endpoints (environment) ----
    remote_metrics,        \* <<date, kind>> -> the response, once observed
    remote_details,        \* activity id -> its type and detail response
    remote_body,           \* <<start, end>> -> the weight-range response
    \* ---- SyncManager ----
    api_client,            \* FALSE until initialize() has set it
    sync_pc,               \* "idle", or "running" inside sync_range
    sync_args,             \* the arguments of the last sync_range call
    todo,                  \* the tasks the running sync_range has left
    stats,                 \* the stats dict of the running sync_range
    sync_result,           \* how the last sync_range call ended
    \* ---- observation of the runs ----
    runs,                  \* the number of sync_range calls so far
    events,                \* the reporter's calls during the last run
    requests,              \* the per-date API requests of the last run
    first_run              \* the first run's arguments and the store after it

remoteVars == <<remote_metrics, remote_details, remote_body>>

syncVars == <<remoteVars, api_client, sync_pc, sync_args, todo, stats,
              sync_result, runs, events, requests, first_run>>

VARIABLES
    \* ---- observation of direct store_timeseries_batch calls ----
    ts_call                \* the last call: kind, tuples, whether it raised

tsVars == <<ts_call>>

VARIABLES
    \* ---- AuthClient / APIClient ----
    now,                   \* the clock the token expiry is read against
    token_manager,         \* TokenManager: oauth1_token, oauth2_token
    minted,                \* access tokens the vendor has issued so far
    api_requests,          \* the requests execute_request has sent
    auth_last              \* the last APIClient.request call and its outcome

authVars == <<now, token_manager, minted, api_requests, auth_last>>

VARIABLES
    \* ---- HttpClientCore ----
    http_req               \* the request in hand: attempts so far, outcome

httpVars == <<http_req>>

VARIABLES
    \* ---- TokenFileManager ----
    token_files,           \* what oauth1_token.json and oauth2_token.json hold
    save_todo,             \* the file operations a save in hand still has to do
    save_args,             \* the tokens that save was given
    load_last              \* the last load_tokens call and its outcome

fileVars == <<token_files, save_todo, save_args, load_last>>

VARIABLES
    \* ---- direct calls on HealthDB and SyncManager ----
    db_call                \* the last such call: which, and what it returned

callVars == <<db_call>>

VARIABLES
    \* ---- WorkoutBuilder, RepeatBuilder ----
    workout_builder,       \* the parent's _steps and the repeat builders made
    wb_calls,              \* the builder calls made so far, in their order
    wb_returned            \* what the last call returned: 0 the parent, r a
                           \* repeat builder

builderVars == <<workout_builder, wb_calls, wb_returned>>

VARIABLES
    \* ---- the strength tables: exercise sets and the activity's summary ----
    strength_db,           \* the activities' summary columns and set rows
    \* ---- a get_activities_for_date call taken one loop pass at a time ----
    get_call,              \* the call in hand: where it is, what it collected
    \* ---- AuthClient.login and resume_login ----
    login_last             \* the last login or resume_login call

strengthVars == <<strength_db>>
loopVars == <<get_call>>
loginVars == <<login_last>>

moreVars == <<callVars, builderVars, strengthVars, loopVars, loginVars>>

otherVars == <<tsVars, authVars, httpVars, fileVars, moreVars>>

vars == <<iterVars, storeVars, hmVars, syncVars, otherVars>>

\* ==== ActivitiesIterator ==================================================

\* An activity of the vendor's list: its id and the day of its start time
\* (None when the activity carries no parsable start time).
Activity(id, day) == [activity_id |-> id, start_time_local |-> day]

NoActivity == Activity(None, None)

\* _extract_activity_date: the date of the start time, None without one.
ExtractActivityDate(activity) ==
    IF activity.start_time_local = None THEN None
    ELSE activity.start_time_local

\* ActivitiesIterator.__init__
NewIterator ==
    [current_activity      |-> NoActivity,
     current_activity_date |-> None,
     activities_cache      |-> <<>>,
     batch_offset          |-> 0,
     has_more_data         |-> TRUE]

\* accessor.list(limit, start): the slice of the remote list.
ListActivities(limit, start) ==
    SubSeq(remote_activities, start + 1,
           IF start + limit <= Len(remote_activities)
           THEN start + limit ELSE Len(remote_activities))

\* a _load_next_batch that takes only an empty batch for the end of the data
LoadNextBatchUntilEmpty(it) ==
    IF ~it.has_more_data
    THEN [it |-> it, ok |-> FALSE, reqs |-> <<>>]
    ELSE IF it.batch_offset \in list_fails
    THEN [it |-> [it EXCEPT !.has_more_data = FALSE], ok |-> FALSE,
          reqs |-> <<it.batch_offset>>]
    ELSE LET batch == ListActivities(BatchSize, it.batch_offset) IN
         IF Len(batch) = 0
         THEN [it |-> [it EXCEPT !.has_more_data = FALSE], ok |-> FALSE,
               reqs |-> <<it.batch_offset>>]
         ELSE [it |-> [it EXCEPT
                         !.activities_cache = it.activities_cache \o batch,
                         !.batch_offset = it.batch_offset + Len(batch)],
               ok |-> TRUE, reqs |-> <<it.batch_offset>>]

\* a _load_next_batch that moves the offset one past the batch it got
LoadNextBatchSkipsOne(it) ==
    IF ~it.has_more_data
    THEN [it |-> it, ok |-> FALSE, reqs |-> <<>>]
    ELSE IF it.batch_offset \in list_fails
    THEN [it |-> [it EXCEPT !.has_more_data = FALSE], ok |-> FALSE,
          reqs |-> <<it.batch_offset>>]
    ELSE LET batch == ListActivities(BatchSize, it.batch_offset) IN
         IF Len(batch) = 0
         THEN [it |-> [it EXCEPT !.has_more_data = FALSE], ok |-> FALSE,
               reqs |-> <<it.batch_offset>>]
         ELSE [it |-> [it EXCEPT
                         !.activities_cache = it.activities_cache \o batch,
                         !.batch_offset = it.batch_offset + Len(batch) + 1,
                         !.has_more_data = (Len(batch) >= BatchSize)],
               ok |-> TRUE, reqs |-> <<it.batch_offset>>]

\* a _load_next_batch that asks the vendor whether or not the data has ended
LoadNextBatchAlwaysAsks(it) ==
    IF it.batch_offset \in list_fails
    THEN [it |-> [it EXCEPT !.has_more_data = FALSE], ok |-> FALSE,
          reqs |-> <<it.batch_offset>>]
    ELSE LET batch == ListActivities(BatchSize, it.batch_offset) IN
         IF Len(batch) = 0
         THEN [it |-> [it EXCEPT !.has_more_data = FALSE], ok |-> FALSE,
               reqs |-> <<it.batch_offset>>]
         ELSE [it |-> [it EXCEPT
                         !.activities_cache = it.activities_cache \o batch,
                         !.batch_offset = it.batch_offset + Len(batch),
                         !.has_more_data = (Len(batch) >= BatchSize)],
               ok |-> TRUE, reqs |-> <<it.batch_offset>>]

\* _load_next_batch: [it, ok, reqs] -- the iterator after the call, the
\* returned flag and the list requests made.
LoadNextBatch(it) ==
    IF ~it.has_more_data
    THEN [it |-> it, ok |-> FALSE, reqs |-> <<>>]
    ELSE IF it.batch_offset \in list_fails
    THEN \* the request raises: warning, has_more_data = False
         [it |-> [it EXCEPT !.has_more_data = FALSE], ok |-> FALSE,
          reqs |-> <<it.batch_offset>>]
    ELSE LET batch == ListActivities(BatchSize, it.batch_offset) IN
         IF Len(batch) = 0
         THEN [it |-> [it EXCEPT !.has_more_data = FALSE], ok |-> FALSE,
               reqs |-> <<it.batch_offset>>]
         ELSE [it |-> [it EXCEPT
                         !.activities_cache = it.activities_cache \o batch,
                         !.batch_offset = it.batch_offset + Len(batch),
                         !.has_more_data = (Len(batch) >= BatchSize)],
               ok |-> TRUE, reqs |-> <<it.batch_offset>>]

\* the tail of _advance_to_next_activity: pop the head of the cache, or
\* clear the current activity when the cache is empty.
PopNext(it) ==
    IF Len(it.activities_cache) > 0
    THEN [it |-> [it EXCEPT
                    !.current_activity = Head(it.activities_cache),
                    !.current_activity_date =
                        ExtractActivityDate(Head(it.activities_cache)),
                    !.activities_cache = Tail(it.activities_cache)],
          ok |-> TRUE]
    ELSE [it |-> [it EXCEPT !.current_activity = NoActivity,
                            !.current_activity_date = None],
          ok |-> FALSE]

\* an advance that leaves the current activity in place when nothing is left
AdvanceKeepsCurrent(it) ==
    IF Len(it.activities_cache) = 0
    THEN LET l == LoadNextBatch(it) IN
         IF ~l.ok
         THEN [it |-> l.it, ok |-> FALSE, reqs |-> l.reqs]
         ELSE LET p == PopNext(l.it) IN
              [it |-> p.it, ok |-> p.ok, reqs |-> l.reqs]
    ELSE LET p == PopNext(it) IN [it |-> p.it, ok |-> p.ok, reqs |-> <<>>]

\* _advance_to_next_activity: [it, ok, reqs]
AdvanceToNextActivity(it) ==
    IF Len(it.activities_cache) = 0
    THEN LET l == LoadNextBatch(it) IN
         IF ~l.ok
         THEN [it |-> [l.it EXCEPT !.current_activity = NoActivity,
                                   !.current_activity_date = None],
               ok |-> FALSE, reqs |-> l.reqs]
         ELSE LET p == PopNext(l.it) IN
              [it |-> p.it, ok |-> p.ok, reqs |-> l.reqs]
    ELSE LET p == PopNext(it) IN [it |-> p.it, ok |-> p.ok, reqs |-> <<>>]

\* initialize: load the first batch, advance to the first activity.
Initialize(it) ==
    LET l == LoadNextBatch(it)
        a == AdvanceToNextActivity(l.it)
    IN [it |-> a.it, reqs |-> l.reqs \o a.reqs]

\* a reset that leaves the cursor's offset and end-of-data flag as they were
ResetKeepsCursor(it) ==
    Initialize([it EXCEPT !.current_activity = NoActivity,
                          !.current_activity_date = None,
                          !.activities_cache = <<>>])

\* reset: every field back to its constructor value, then initialize().
ResetIterator(it) ==
    Initialize([it EXCEPT !.current_activity = NoActivity,
                          !.current_activity_date = None,
                          !.activities_cache = <<>>,
                          !.batch_offset = 0,
                          !.has_more_data = TRUE])

\* a branch choice that collects the activities newer than the target too
BranchCollectsNewer(activity_date, target_date) ==
    IF activity_date = None THEN "skip"
    ELSE IF activity_date >= target_date THEN "collect"
    ELSE "stop"

\* a branch choice that skips the activities older than the target too
BranchSkipsOlder(activity_date, target_date) ==
    IF activity_date = None THEN "skip"
    ELSE IF activity_date = target_date THEN "collect"
    ELSE "skip"

\* the branch get_activities_for_date takes on the current activity's date
Branch(activity_date, target_date) ==
    IF activity_date = None THEN "skip"
    ELSE IF activity_date > target_date THEN "skip"
    ELSE IF activity_date = target_date THEN "collect"
    ELSE "stop"

\* the while loop of get_activities_for_date
RECURSIVE CollectLoop(_, _, _, _)
CollectLoop(it, target_date, activities, reqs) ==
    IF it.current_activity = NoActivity
    THEN [it |-> it, activities |-> activities, reqs |-> reqs]
    ELSE LET branch == Branch(it.current_activity_date, target_date) IN
    IF branch = "skip"
    THEN \* undated or newer than the target: skip it
         LET a == AdvanceToNextActivity(it) IN
         IF ~a.ok
         THEN [it |-> a.it, activities |-> activities, reqs |-> reqs \o a.reqs]
         ELSE CollectLoop(a.it, target_date, activities, reqs \o a.reqs)
    ELSE IF branch = "collect"
    THEN \* it matches the target: collect it
         LET a == AdvanceToNextActivity(it)
             got == Append(activities, it.current_activity) IN
         IF ~a.ok
         THEN [it |-> a.it, activities |-> got, reqs |-> reqs \o a.reqs]
         ELSE CollectLoop(a.it, target_date, got, reqs \o a.reqs)
    ELSE \* older than the target: done for this date, nothing consumed
         [it |-> it, activities |-> activities, reqs |-> reqs]

\* get_activities_for_date: [it, activities, reqs]
GetActivitiesForDate(it, target_date) ==
    IF it.current_activity = NoActivity
    THEN LET a == AdvanceToNextActivity(it) IN
         IF ~a.ok
         THEN [it |-> a.it, activities |-> <<>>, reqs |-> a.reqs]
         ELSE CollectLoop(a.it, target_date, <<>>, a.reqs)
    ELSE CollectLoop(it, target_date, <<>>, <<>>)

\* ---- the list requests of a session --------------------------------------

\* the length of the batch the request at an offset returns (none when the
\* request raises)
BatchLen(offset) ==
    IF offset \in list_fails THEN 0
    ELSE Len(ListActivities(BatchSize, offset))

\* the activities the requests before the k-th of the session returned
RECURSIVE FetchedBefore(_, _)
FetchedBefore(reqs, k) ==
    IF k <= 1 THEN 0
    ELSE FetchedBefore(reqs, k - 1) + BatchLen(reqs[k - 1])

\* ==== HealthDB =============================================================

\* The columns of DailyHealthMetric the model keeps: one that only the daily
\* summary writes and one that two metric kinds write.
Columns == {"total_steps", "resting_heart_rate"}

\* column values
Values == {1, 2}

NoTable == [x \in {} |-> None]

\* HealthDB.__init__: the empty tables
EmptyDB ==
    [daily_health_metrics |-> NoTable,   \* metric_date -> columns
     sync_status          |-> NoTable,   \* <<sync_date, metric_type>> -> row
     timeseries           |-> NoTable,   \* <<metric_type, timestamp>> -> value
     activities           |-> NoTable,   \* activity_id -> row
     exercise_sets        |-> {},        \* the activities that have sets
     activity_splits      |-> NoTable,   \* activity_id -> lap_index -> row
     body_composition     |-> {}]        \* the sample_pk of the stored entries

\* session.merge of one row: insert, or replace the row with that key
Upsert(table, key, row) ==
    [k \in DOMAIN table \cup {key} |-> IF k = key THEN row ELSE table[k]]

\* store_health_metric(user_id, metric_date, **kwargs): read the row or make
\* a new one, setattr every keyword that is a column, merge, commit.
StoreHealthMetric(d, metric_date, kwargs) ==
    LET table == d.daily_health_metrics
        metric == IF metric_date \in DOMAIN table THEN table[metric_date]
                  ELSE [c \in Columns |-> None]
    IN [d EXCEPT !.daily_health_metrics =
            Upsert(table, metric_date,
                   [c \in Columns |-> IF c \in DOMAIN kwargs THEN kwargs[c]
                                      ELSE metric[c]])]

\* sync_status_exists
SyncStatusExists(d, sync_date, metric_type) ==
    <<sync_date, metric_type>> \in DOMAIN d.sync_status

\* a create that leaves a row that is there as it is
CreateSyncStatusIfAbsent(d, sync_date, metric_type, status) ==
    IF SyncStatusExists(d, sync_date, metric_type) THEN d
    ELSE [d EXCEPT !.sync_status =
            Upsert(d.sync_status, <<sync_date, metric_type>>,
                   [status |-> status, synced_at |-> FALSE,
                    error_message |-> ""])]

\* create_sync_status: session.merge of a row object that carries the key
\* and the status.  Without a row of the key it is inserted, synced_at and
\* error_message null; onto a row of the key the merge copies the status and
\* nothing else, the object carrying no other attribute.
CreateSyncStatus(d, sync_date, metric_type, status) ==
    IF SyncStatusExists(d, sync_date, metric_type)
    THEN [d EXCEPT !.sync_status[<<sync_date, metric_type>>].status = status]
    ELSE [d EXCEPT !.sync_status =
            Upsert(d.sync_status, <<sync_date, metric_type>>,
                   [status |-> status, synced_at |-> FALSE,
                    error_message |-> ""])]

\* update_sync_status: when the row exists set its status (and synced_at),
\* and its error_message only when one is given.
UpdateSyncStatus(d, sync_date, metric_type, status, error_message) ==
    IF SyncStatusExists(d, sync_date, metric_type)
    THEN LET old == d.sync_status[<<sync_date, metric_type>>] IN
         [d EXCEPT !.sync_status =
            Upsert(d.sync_status, <<sync_date, metric_type>>,
                   [status |-> status,
                    synced_at |-> TRUE,
                    error_message |-> IF error_message # "" THEN error_message
                                      ELSE old.error_message])]
    ELSE d

\* get_sync_status: the row's status, "none" (Python None) without a row
GetSyncStatus(d, sync_date, metric_type) ==
    IF SyncStatusExists(d, sync_date, metric_type)
    THEN d.sync_status[<<sync_date, metric_type>>].status
    ELSE "none"

\* the ledger states
Statuses == {"pending", "completed", "skipped", "failed"}

\* a reset that spares only the completed rows
ResetNotCompleted(d) ==
    [d EXCEPT !.sync_status =
        [k \in DOMAIN @ |->
            IF @[k].status # "completed"
            THEN [status |-> "pending", synced_at |-> FALSE,
                  error_message |-> ""]
            ELSE @[k]]]

\* cmd_reset, its update: every row of status failed gets status pending,
\* a null error_message and a null synced_at
ResetFailed(d) ==
    [d EXCEPT !.sync_status =
        [k \in DOMAIN @ |->
            IF @[k].status = "failed"
            THEN [status |-> "pending", synced_at |-> FALSE,
                  error_message |-> ""]
            ELSE @[k]]]

\* cmd_reset: nothing without a failed row; without --force the answer
\* decides; then the update
CmdReset(d, force, response) ==
    LET failed_count ==
            Cardinality({k \in DOMAIN d.sync_status :
                            d.sync_status[k].status = "failed"})
    IN IF failed_count = 0
       THEN [db |-> d, printed |-> "No failed records found"]
       ELSE IF ~force /\ response # "y"
       THEN [db |-> d, printed |-> "Reset cancelled"]
       ELSE [db |-> ResetFailed(d), printed |-> "Reset"]

\* activity_exists
ActivityExists(d, activity_id) == activity_id \in DOMAIN d.activities

\* a null in a numeric column, apart from every number the column may hold
Null == 0 - 1

\* the list item of an activity as extract_metric_data hands it on
ActivityData(activity_id, activity_date, activity_type, distance_meters, calories, elevation_gain) ==
    [activity_id |-> activity_id, activity_date |-> activity_date,
     activity_type |-> activity_type, distance_meters |-> distance_meters,
     calories |-> calories, elevation_gain |-> elevation_gain]

\* store_activity: merge a row built from the list item; details_synced
\* takes its default, the strength summary columns are empty.
StoreActivityData(d, activity_data) ==
    [d EXCEPT !.activities =
        Upsert(d.activities, activity_data.activity_id,
               [activity_date |-> activity_data.activity_date,
                activity_type |-> activity_data.activity_type,
                distance_meters |-> activity_data.distance_meters,
                calories |-> activity_data.calories,
                elevation_gain |-> activity_data.elevation_gain,
                total_sets |-> None,
                details_synced |-> FALSE])]

\* store_activity of a list item that carries no distance, calories or
\* elevation
StoreActivity(d, activity_id, activity_date, activity_type) ==
    StoreActivityData(d, ActivityData(activity_id, activity_date,
                                      activity_type, Null, Null, Null))

\* an update that fills a column only where the row holds a null
UpdateNullColumnsOnly(d, activity_id, details) ==
    IF ActivityExists(d, activity_id)
    THEN LET row == d.activities[activity_id]
         IN [d EXCEPT !.activities[activity_id] =
                [c \in DOMAIN row |->
                    IF c = "details_synced" THEN TRUE
                    ELSE IF c \in DOMAIN details /\ row[c] = Null
                    THEN details[c]
                    ELSE row[c]]]
    ELSE d

\* update_activity_details: when the activity exists, set the given columns
\* that the row has, and details_synced.
UpdateActivityDetails(d, activity_id, details) ==
    IF ActivityExists(d, activity_id)
    THEN LET row == d.activities[activity_id]
         IN [d EXCEPT !.activities[activity_id] =
                [c \in DOMAIN row |->
                    IF c = "details_synced" THEN TRUE
                    ELSE IF c \in DOMAIN details THEN details[c]
                    ELSE row[c]]]
    ELSE d

\* store_exercise_sets
StoreExerciseSets(d, activity_id) ==
    [d EXCEPT !.exercise_sets = @ \cup {activity_id}]

\* a lap as extract_activity_splits hands it on
Split(lap_index, intensity_type, distance_meters, calories, elevation_gain) ==
    [lap_index |-> lap_index, intensity_type |-> intensity_type,
     distance_meters |-> distance_meters, calories |-> calories,
     elevation_gain |-> elevation_gain]

\* store_activity_splits: merge each lap on (user, activity_id, lap_index)
RECURSIVE MergeSplits(_, _)
MergeSplits(rows, splits) ==
    IF splits = <<>> THEN rows
    ELSE MergeSplits(Upsert(rows, Head(splits).lap_index, Head(splits)),
                     Tail(splits))

StoreActivitySplits(d, activity_id, splits) ==
    IF splits = <<>> THEN d
    ELSE [d EXCEPT !.activity_splits =
            Upsert(@, activity_id,
                   MergeSplits(IF activity_id \in DOMAIN @ THEN @[activity_id]
                               ELSE NoTable, splits))]

\* activity_has_splits
ActivityHasSplits(d, activity_id) == activity_id \in DOMAIN d.activity_splits

\* get_activity_splits: the stored laps in lap_index order
RECURSIVE RowsInOrder(_)
RowsInOrder(rows) ==
    IF DOMAIN rows = {} THEN <<>>
    ELSE LET first == CHOOSE k \in DOMAIN rows : \A j \in DOMAIN rows : k <= j
         IN <<rows[first]>>
            \o RowsInOrder([k \in DOMAIN rows \ {first} |-> rows[k]])

GetActivitySplits(d, activity_id) ==
    IF ActivityHasSplits(d, activity_id)
    THEN RowsInOrder(d.activity_splits[activity_id])
    ELSE <<>>

\* store_timeseries_batch raises when a tuple it does not skip has no
\* timestamp: TimeSeries.timestamp is a NOT NULL primary-key column.
StoreTimeseriesRaises(data) ==
    \E i \in 1..Len(data) : data[i].value # None /\ data[i].timestamp = None

\* a batch store that merges the tuples without a value too
RECURSIVE StoreTimeseriesKeepsNull(_, _, _)
StoreTimeseriesKeepsNull(d, metric_type, data) ==
    IF data = <<>> THEN d
    ELSE StoreTimeseriesKeepsNull(
            [d EXCEPT !.timeseries =
                Upsert(d.timeseries, <<metric_type, Head(data).timestamp>>,
                       Head(data).value)],
            metric_type, Tail(data))

\* store_timeseries_batch: skip the tuples without a value, merge the others
\* on (user, metric_type, timestamp); one commit for the batch.
RECURSIVE StoreTimeseriesBatch(_, _, _)
StoreTimeseriesBatch(d, metric_type, data) ==
    IF data = <<>> THEN d
    ELSE LET point == Head(data)
             d1 == IF point.value = None THEN d
                   ELSE [d EXCEPT !.timeseries =
                           Upsert(d.timeseries,
                                  <<metric_type, point.timestamp>>, point.value)]
         IN StoreTimeseriesBatch(d1, metric_type, Tail(data))

\* ---- the vendor's list ---------------------------------------------------

\* The dated entries of a list are newest first (the endpoint's order).
NewestFirst(list) ==
    \A i, j \in 1..Len(list) :
        (i < j /\ list[i].start_time_local # None
               /\ list[j].start_time_local # None)
            => list[i].start_time_local >= list[j].start_time_local

RemoteLists ==
    UNION { { [i \in 1..n |-> Activity(i, day[i])] :
                day \in [1..n -> Dates \cup {None}] } : n \in 0..MaxActivities }

\* ==== the vendor's per-date endpoints =====================================

\* MetricType values of the kinds the model keeps: one summary-only kind and
\* one kind that also has a timeseries, both writing resting_heart_rate.
DAILY_SUMMARY == "daily_summary"
HEART_RATE == "heart_rate"
ACTIVITIES == "activities"
BODY_COMPOSITION == "body_composition"

\* list(MetricType), restricted to these kinds, in the enum's order
AllMetricTypes == <<DAILY_SUMMARY, ACTIVITIES, HEART_RATE, BODY_COMPOSITION>>

\* the kinds _sync_metric_for_date extracts a timeseries for
TimeseriesKinds == {HEART_RATE}

\* What api_client.metrics.get(kind).get(date) does: it returns an object
\* (outcome "ok") or raises an API error or an authentication error.
Outcomes == {"ok", "error", "auth_error"}

Response(outcome, total_steps, resting_heart_rate, heart_rate_values_array) ==
    [outcome |-> outcome, total_steps |-> total_steps,
     resting_heart_rate |-> resting_heart_rate,
     heart_rate_values_array |-> heart_rate_values_array]

Reading(timestamp, value) == [timestamp |-> timestamp, value |-> value]

\* The responses of one endpoint.  A daily summary has its fields or lacks
\* some; a heart-rate response has a summary field and an array of
\* readings: empty, complete, a reading without a timestamp, a reading
\* without a heart rate.
Responses(metric_type) ==
    IF metric_type = DAILY_SUMMARY
    THEN {Response("ok", 1, 2, <<>>),
          Response("ok", 1, None, <<>>),
          Response("ok", None, None, <<>>),
          Response("error", None, None, <<>>)}
    ELSE {Response("ok", None, r, a) :
              r \in {None, 1}, a \in {<<>>, <<Reading(1, 1)>>}}
         \cup
         {Response("ok", None, 1, <<Reading(None, 1)>>),
          Response("ok", None, None, <<Reading(1, None)>>),
          Response("error", None, None, <<>>),
          Response("auth_error", None, None, <<>>)}

\* The remote data does not change: the first request for (date, kind)
\* fixes the response, later requests get it again.
Fetch(sync_date, metric_type) ==
    IF <<sync_date, metric_type>> \in DOMAIN remote_metrics
    THEN {remote_metrics[<<sync_date, metric_type>>]}
    ELSE Responses(metric_type)

\* ==== DataExtractor =======================================================

\* extract_metric_data: a dict with one key per field of the kind, None for
\* an attribute the object lacks.
ExtractMetricData(data, metric_type) ==
    IF metric_type = DAILY_SUMMARY
    THEN [c \in {"total_steps", "resting_heart_rate"} |->
            IF c = "total_steps" THEN data.total_steps
            ELSE data.resting_heart_rate]
    ELSE [c \in {"resting_heart_rate"} |-> data.resting_heart_rate]

\* extract_timeseries_data, HEART_RATE branch: the readings that have a
\* heart rate, as (timestamp, value) tuples.
RECURSIVE ExtractTimeseriesData(_)
ExtractTimeseriesData(readings) ==
    IF readings = <<>> THEN <<>>
    ELSE IF Head(readings).value # None
         THEN <<Head(readings)>> \o ExtractTimeseriesData(Tail(readings))
         ELSE ExtractTimeseriesData(Tail(readings))

BODY_BATTERY == "body_battery"
STRESS == "stress"
RESPIRATION == "respiration"

\* the four kinds extract_timeseries_data has a branch for
AllTimeseriesKinds == {BODY_BATTERY, STRESS, HEART_RATE, RESPIRATION}

\* extract_timeseries_data for any of the four kinds: the body-battery,
\* stress and heart-rate branches drop the readings without a value, the
\* respiration branch passes every reading on.
ExtractTimeseriesFor(readings, metric_type) ==
    IF metric_type = RESPIRATION THEN readings
    ELSE ExtractTimeseriesData(readings)

\* sum(s.get(column, 0) or 0 for s in splits)
RECURSIVE SumOf(_, _)
SumOf(splits, column) ==
    IF splits = <<>> THEN 0
    ELSE (IF Head(splits)[column] = Null THEN 0 ELSE Head(splits)[column])
         + SumOf(Tail(splits), column)

\* a summary over every lap, the resting ones too
SummaryOfAllSplits(splits) ==
    IF splits = <<>> THEN [total_laps |-> 0]
    ELSE [total_laps |-> Len(splits),
          total_distance_meters |-> SumOf(splits, "distance_meters"),
          total_elevation_gain |-> SumOf(splits, "elevation_gain"),
          total_calories |-> SumOf(splits, "calories")]

\* calculate_splits_summary: the totals over the ACTIVE laps; without an
\* ACTIVE lap only the lap count
CalculateSplitsSummary(splits) ==
    LET active_splits ==
            SelectSeq(splits, LAMBDA s : s.intensity_type = "ACTIVE")
    IN IF active_splits = <<>> THEN [total_laps |-> Len(splits)]
       ELSE [total_laps |-> Len(active_splits),
             total_distance_meters |-> SumOf(active_splits, "distance_meters"),
             total_elevation_gain |-> SumOf(active_splits, "elevation_gain"),
             total_calories |-> SumOf(active_splits, "calories")]

\* summary.get(key): null when the summary has no such total
Get(summary, key) == IF key \in DOMAIN summary THEN summary[key] ELSE Null

\* the activity_updates built from a summary: a column for every total
\* that is there and not zero
ActivityUpdates(summary) ==
    LET source == [distance_meters |-> "total_distance_meters",
                   calories |-> "total_calories",
                   elevation_gain |-> "total_elevation_gain"]
    IN [c \in {k \in DOMAIN source : Get(summary, source[k]) \notin {Null, 0}}
          |-> summary[source[c]]]

\* ==== WorkoutBuilder, RepeatBuilder ========================================

\* an entry of WorkoutBuilder._steps: a WorkoutStep, or a RepeatGroup whose
\* steps list is the _steps list of the repeat builder that made it (the
\* same list object, not a copy)
StepEntry(step_type) ==
    [entry |-> "WorkoutStep", step_type |-> step_type, iterations |-> 0,
     steps_of |-> 0]

RepeatGroup(iterations, repeat_builder) ==
    [entry |-> "RepeatGroup", step_type |-> "", iterations |-> iterations,
     steps_of |-> repeat_builder]

\* WorkoutBuilder.warmup, cooldown, interval, recovery, rest, step: the
\* step is appended
BuilderStep(b, step_type) ==
    [b EXCEPT !.steps = Append(@, StepEntry(step_type))]

\* WorkoutBuilder.repeat(iterations): a RepeatBuilder with no step
BuilderRepeat(b, iterations) ==
    [b EXCEPT !.repeats = Append(@, [iterations |-> iterations,
                                     steps |-> <<>>])]

\* RepeatBuilder.interval, recovery, rest, step: the step is appended to the
\* repeat builder's list
RepeatStep(b, r, step_type) ==
    [b EXCEPT !.repeats[r].steps = Append(@, step_type)]

\* an end_repeat that hands the steps to the parent one by one
EndRepeatFlattens(b, r) ==
    [b EXCEPT !.steps = @ \o [i \in 1..Len(b.repeats[r].steps) |->
                                 StepEntry(b.repeats[r].steps[i])]]

\* RepeatBuilder.end_repeat: a RepeatGroup of the builder's iterations and
\* steps list is appended to the parent's steps
EndRepeat(b, r) ==
    [b EXCEPT !.steps = Append(@, RepeatGroup(b.repeats[r].iterations, r))]

\* the steps of an entry of the parent: those of the list the group holds
GroupSteps(b, entry) == b.repeats[entry.steps_of].steps

\* ==== TokenManager, AuthClient =========================================

\* no OAuth2 token
NoOAuth2 == [access_token |-> None, expires_at |-> None,
             refresh_token_expires_at |-> None]

\* OAuth2Token.expired and .refresh_expired: the clock has reached the
\* expiry written in the token
Expired(token) == now >= token.expires_at

RefreshExpired(token) == now >= token.refresh_token_expires_at

\* str(oauth2_token), the value of the Authorization header
Bearer(token) == <<"Bearer", token.access_token>>

\* a refresh test that forgets the refresh token's own expiry
NeedsRefreshWhileExpired(tm) ==
    /\ tm.oauth1_token # None
    /\ tm.oauth2_token # NoOAuth2
    /\ Expired(tm.oauth2_token)

\* TokenManager.is_authenticated
IsAuthenticated(tm) ==
    /\ tm.oauth1_token # None
    /\ tm.oauth2_token # NoOAuth2
    /\ ~Expired(tm.oauth2_token)

\* TokenManager.needs_refresh
NeedsRefresh(tm) ==
    /\ tm.oauth1_token # None
    /\ tm.oauth2_token # NoOAuth2
    /\ Expired(tm.oauth2_token)
    /\ ~RefreshExpired(tm.oauth2_token)

\* lifetimes of the tokens the vendor issues
AccessLifetime == 1
RefreshLifetime == 2

\* the OAuth2 token an exchange issues: a new access token, valid from now
IssuedToken(access_token) ==
    [access_token |-> access_token,
     expires_at |-> now + AccessLifetime,
     refresh_token_expires_at |-> now + RefreshLifetime]

\* sso.exchange: a new token, or an error of the login flow (AuthError) or
\* of the network (APIError)
ExchangeOutcomes == {"ok", "AuthError", "APIError"}

\* AuthClient.refresh_tokens: the exchange's error leaves the manager as it
\* was; a new token replaces the old one (and is saved)
RefreshTokens(tm, exchange) ==
    IF tm.oauth1_token = None
    THEN [tm |-> tm, raised |-> "AuthError", exchanged |-> FALSE]
    ELSE IF exchange # "ok"
    THEN [tm |-> tm, raised |-> exchange, exchanged |-> TRUE]
    ELSE [tm |-> [tm EXCEPT !.oauth2_token = IssuedToken(minted + 1)],
          raised |-> "", exchanged |-> TRUE]

\* TokenManager.get_auth_headers
TokenManagerHeaders(tm) ==
    IF ~IsAuthenticated(tm)
    THEN [raised |-> "AuthError", headers |-> <<>>]
    ELSE [raised |-> "", headers |-> Bearer(tm.oauth2_token)]

\* AuthClient.get_auth_headers
GetAuthHeaders(tm, exchange) ==
    IF IsAuthenticated(tm)
    THEN [tm |-> tm, raised |-> "", refreshed |-> FALSE,
          headers |-> TokenManagerHeaders(tm).headers]
    ELSE IF ~NeedsRefresh(tm)
    THEN [tm |-> tm, raised |-> "AuthError", refreshed |-> FALSE,
          headers |-> <<>>]
    ELSE LET r == RefreshTokens(tm, exchange)
         IN IF r.raised # ""
            THEN [tm |-> r.tm, raised |-> r.raised,
                  refreshed |-> r.exchanged, headers |-> <<>>]
            ELSE [tm |-> r.tm, raised |-> TokenManagerHeaders(r.tm).raised,
                  refreshed |-> TRUE,
                  headers |-> TokenManagerHeaders(r.tm).headers]

\* ==== TokenFileManager =================================================

TokenFileNames == {"oauth1", "oauth2"}

\* what a token file can hold: nothing (missing), a token document, text
\* that is not JSON, JSON that is not a token, or the beginning of a
\* document whose writing was not finished
Contents == {"missing", "token", "malformed_json", "invalid_structure",
             "truncated"}

\* what opening and reading a file can meet
Errnos == {"ok", "EACCES", "ENOSPC", "EROFS", "EIO"}

\* _load_oauth1_token / _load_oauth2_token with _safe_load_token_file: a
\* file that is not there is None; PermissionError and the OSErrors with
\* errno 28 or 30 are raised again; any other failure is None
SafeLoadTokenFile(file, errno) ==
    IF file.content = "missing" THEN [raised |-> "", token |-> None]
    ELSE IF errno = "EACCES" THEN [raised |-> "PermissionError", token |-> None]
    ELSE IF errno \in {"ENOSPC", "EROFS"}
    THEN [raised |-> "OSError", token |-> None]
    ELSE IF errno # "ok" THEN [raised |-> "", token |-> None]
    ELSE IF file.content # "token" THEN [raised |-> "", token |-> None]
    ELSE [raised |-> "", token |-> file.token]

\* a load that gives up both tokens when one file is unusable
LoadTokensAllOrNothing(files, errors) ==
    LET r1 == SafeLoadTokenFile(files.oauth1, errors.oauth1)
        r2 == SafeLoadTokenFile(files.oauth2, errors.oauth2)
    IN IF r1.raised # ""
       THEN [raised |-> r1.raised, oauth1_token |-> None, oauth2_token |-> None]
       ELSE IF r2.raised # ""
       THEN [raised |-> r2.raised, oauth1_token |-> None, oauth2_token |-> None]
       ELSE IF r1.token = None \/ r2.token = None
       THEN [raised |-> "", oauth1_token |-> None, oauth2_token |-> None]
       ELSE [raised |-> "", oauth1_token |-> r1.token,
             oauth2_token |-> r2.token]

\* TokenFileManager.load_tokens: the OAuth1 file, then the OAuth2 file
LoadTokens(files, errors) ==
    LET r1 == SafeLoadTokenFile(files.oauth1, errors.oauth1)
        r2 == SafeLoadTokenFile(files.oauth2, errors.oauth2)
    IN IF r1.raised # ""
       THEN [raised |-> r1.raised, oauth1_token |-> None, oauth2_token |-> None]
       ELSE IF r2.raised # ""
       THEN [raised |-> r2.raised, oauth1_token |-> None, oauth2_token |-> None]
       ELSE [raised |-> "", oauth1_token |-> r1.token,
             oauth2_token |-> r2.token]

\* the file operations of save_tokens: each present token's file is opened
\* for writing, which empties it, then the document is written
SaveSteps(oauth1_token, oauth2_token) ==
    (IF oauth1_token # None
     THEN <<[name |-> "oauth1", op |-> "open"],
            [name |-> "oauth1", op |-> "dump"]>>
     ELSE <<>>)
    \o
    (IF oauth2_token # None
     THEN <<[name |-> "oauth2", op |-> "open"],
            [name |-> "oauth2", op |-> "dump"]>>
     ELSE <<>>)

\* one file operation of _save_oauth1_token / _save_oauth2_token
SaveStep(files, step, args) ==
    IF step.op = "open"
    THEN [files EXCEPT ![step.name] = [content |-> "truncated", token |-> None]]
    ELSE [files EXCEPT ![step.name] =
            [content |-> "token",
             token |-> IF step.name = "oauth1" THEN args.oauth1_token
                       ELSE args.oauth2_token]]

\* ==== HttpClientCore ===================================================

\* every 4xx and 5xx status taken for retryable
ClientAndServerErrors == {404, 408, 429, 500, 502, 503, 504}

\* HTTPStatus.RETRYABLE_CODES
RETRYABLE_CODES == {408, 429, 500, 502, 503, 504}

\* the statuses the vendor answers with: success, a plain client error and
\* the retryable ones
StatusCodes == {200, 404} \cup RETRYABLE_CODES

\* the methods the client is used with, and those the retry strategy
\* Retry(total, status_forcelist, backoff_factor) repeats: it is built
\* without a method list, which leaves POST out
Methods == {"GET", "POST"}
RetriedMethods == {"GET"}

\* the retry strategy's test of a response
IsRetry(method, status) ==
    method \in RetriedMethods /\ status \in RETRYABLE_CODES

\* the pause before retry k, in units of backoff_factor
Backoff(k) == 2 ^ (k - 1)

\* Response.raise_for_status
RaisesForStatus(status) == status >= 400

\* one attempt of execute_request's session.request and what follows from
\* its status: a pause and another attempt; the strategy giving up (it
\* raises RetryError, which the HTTPError handler does not take); or the
\* response, handed to raise_for_status, whose HTTPError becomes APIError
ExecuteAttempt(req, status) ==
    LET retries == Len(req.delays)
        seen == [req EXCEPT !.statuses = Append(@, status)]
    IN IF IsRetry(req.method, status)
       THEN IF retries >= req.retry_count
            THEN [seen EXCEPT !.result = "RetryError"]
            ELSE [seen EXCEPT !.delays = Append(@, Backoff(retries + 1))]
       ELSE IF RaisesForStatus(status)
            THEN [seen EXCEPT !.result = "APIError"]
            ELSE [seen EXCEPT !.result = "response"]

\* ==== SyncManager =========================================================

\* SyncConfig.max_sync_days, scaled down from 3650
max_sync_days == 2

\* the sync_range calls of one behaviour
MaxRuns == 2

Abs(n) == IF n < 0 THEN -n ELSE n

DateCountOffByOne(start_date, end_date) == Abs(end_date - start_date)

\* date_count of sync_range
DateCount(start_date, end_date) == Abs(end_date - start_date) + 1

\* _date_range: the dates from start_date to end_date, in either direction
DateRange(start_date, end_date) ==
    IF start_date <= end_date
    THEN [i \in 1..(end_date - start_date + 1) |-> start_date + i - 1]
    ELSE [i \in 1..(start_date - end_date + 1) |-> start_date - i + 1]

SeqToSet(s) == {s[i] : i \in 1..Len(s)}

\* the list comprehension of sync_range: the members of a list that satisfy
\* a test, in the list's order
RECURSIVE Without(_, _)
Without(list, excluded) ==
    IF list = <<>> THEN <<>>
    ELSE IF Head(list) \in excluded THEN Without(Tail(list), excluded)
         ELSE <<Head(list)>> \o Without(Tail(list), excluded)

IsCompletedOrSkipped(d, metric_type, sync_date) ==
    GetSyncStatus(d, sync_date, metric_type) \in {"completed", "skipped"}

\* _is_metric_completed
IsMetricCompleted(d, metric_type, sync_date) ==
    GetSyncStatus(d, sync_date, metric_type) = "completed"

\* str(e) of what a task can raise
ErrorMessage(outcome) ==
    IF outcome = "auth_error" THEN "Not authenticated"
    ELSE IF outcome = "error" THEN "HTTP request failed"
    ELSE "NOT NULL constraint failed: timeseries.timestamp"

\* an except clause that records the failure in the ledger and counts nothing
TaskFailedUncounted(d, st, sync_date, metric_type, message) ==
    [db    |-> UpdateSyncStatus(d, sync_date, metric_type, "failed", message),
     stats |-> st,
     event |-> "task_failed"]

TaskFailedUnrecorded(d, st, sync_date, metric_type, message) ==
    [db    |-> d,
     stats |-> [st EXCEPT !.failed = @ + 1],
     event |-> "task_failed"]

\* the except clause of _sync_metric_for_date
TaskFailed(d, st, sync_date, metric_type, message) ==
    [db    |-> UpdateSyncStatus(d, sync_date, metric_type, "failed", message),
     stats |-> [st EXCEPT !.failed = @ + 1],
     event |-> "task_failed"]

\* the try block of _sync_metric_for_date once the response is known
SyncFetched(d, st, data, sync_date, metric_type) ==
    IF data.outcome # "ok"
    THEN TaskFailed(d, st, sync_date, metric_type, ErrorMessage(data.outcome))
    ELSE
    LET extracted_data == ExtractMetricData(data, metric_type)
        summary_stored == \E c \in DOMAIN extracted_data :
                              extracted_data[c] # None
        d1 == IF summary_stored
              THEN StoreHealthMetric(d, sync_date, extracted_data)
              ELSE d
        timeseries_data ==
              IF metric_type \in AllTimeseriesKinds
              THEN ExtractTimeseriesFor(data.heart_rate_values_array,
                                        metric_type)
              ELSE <<>>
        timeseries_stored == timeseries_data # <<>>
    IN IF timeseries_stored /\ StoreTimeseriesRaises(timeseries_data)
       THEN TaskFailed(d1, st, sync_date, metric_type, ErrorMessage("store"))
       ELSE
       LET d2 == StoreTimeseriesBatch(d1, metric_type, timeseries_data) IN
       IF summary_stored \/ timeseries_stored
       THEN [db    |-> UpdateSyncStatus(d2, sync_date, metric_type,
                                        "completed", ""),
             stats |-> [st EXCEPT !.completed = @ + 1],
             event |-> "task_complete"]
       ELSE [db    |-> UpdateSyncStatus(d2, sync_date, metric_type,
                                        "skipped", ""),
             stats |-> [st EXCEPT !.skipped = @ + 1],
             event |-> "task_complete"]

\* a ledger creation that asks for a row whether the key has one or not
NeedsRowAlways(d, current_date, metric_type) == TRUE

\* the test of the ledger creation of sync_range: not sync_status_exists
NeedsRow(d, current_date, metric_type) ==
    ~SyncStatusExists(d, current_date, metric_type)

\* the inner loop of the ledger creation of sync_range: a pending row for
\* every kind of the run that has none on the date
RECURSIVE CreateMissingForDate(_, _, _)
CreateMissingForDate(d, current_date, metrics) ==
    IF metrics = <<>> THEN d
    ELSE CreateMissingForDate(
            IF NeedsRow(d, current_date, Head(metrics))
            THEN CreateSyncStatus(d, current_date, Head(metrics), "pending")
            ELSE d,
            current_date, Tail(metrics))

\* the ledger creation of sync_range, over the dates of the range
RECURSIVE CreateMissing(_, _, _)
CreateMissing(d, dates, metrics) ==
    IF dates = <<>> THEN d
    ELSE CreateMissing(CreateMissingForDate(d, Head(dates), metrics),
                       Tail(dates), metrics)

\* STRENGTH_TYPES and CARDIO_TYPES, one member of each
STRENGTH_TYPES == {"strength_training"}
CARDIO_TYPES == {"running"}

\* What the vendor holds about one activity besides its date: the type key
\* of the list item, and what its exerciseSets or splits endpoint does
\* (returns data, returns nothing, raises).
ActivityInfos ==
    {[activity_type |-> "strength_training", detail |-> "data"],
     [activity_type |-> "strength_training", detail |-> "error"],
     [activity_type |-> "running", detail |-> "data"],
     [activity_type |-> "running", detail |-> "error"],
     [activity_type |-> "yoga", detail |-> "empty"]}

\* _sync_exercise_sets: the sets and their summary when the endpoint gave
\* some; an error is logged and swallowed.
SyncExerciseSets(d, activity_id, info) ==
    IF info.detail = "data"
    THEN UpdateActivityDetails(StoreExerciseSets(d, activity_id),
                               activity_id, [total_sets |-> 1])
    ELSE d

\* the laps a splits request of the sync returns when it returns data
SomeSplits == <<Split(1, "ACTIVE", 1, 1, 1)>>

\* _sync_activity_splits once the laps are extracted: store them, then
\* write the totals that are there to the activity
SyncSplitsData(d, activity_id, splits) ==
    IF splits = <<>> THEN d
    ELSE LET activity_updates == ActivityUpdates(CalculateSplitsSummary(splits))
             d1 == StoreActivitySplits(d, activity_id, splits)
         IN IF DOMAIN activity_updates # {}
            THEN UpdateActivityDetails(d1, activity_id, activity_updates)
            ELSE d1

\* _sync_activity_splits: nothing when the activity has splits; else the
\* splits and the totals when the endpoint gave some; an error is swallowed.
SyncActivitySplits(d, activity_id, info) ==
    IF ActivityHasSplits(d, activity_id) THEN d
    ELSE IF info.detail = "data"
    THEN SyncSplitsData(d, activity_id, SomeSplits)
    ELSE d

\* _sync_activity_details
SyncActivityDetails(d, activity_id, info) ==
    LET d1 == IF info.activity_type \in STRENGTH_TYPES
              THEN SyncExerciseSets(d, activity_id, info) ELSE d
        d2 == IF info.activity_type \in CARDIO_TYPES
              THEN SyncActivitySplits(d1, activity_id, info) ELSE d1
    IN UpdateActivityDetails(d2, activity_id, << >>)

\* the detail requests _sync_activity_details sends for a new activity
DetailRequests(d, activity_id, info) ==
    IF info.activity_type \in STRENGTH_TYPES
    THEN <<[kind |-> "exercise_sets", date |-> None,
            outcome |-> info.detail, activity_id |-> activity_id]>>
    ELSE IF info.activity_type \in CARDIO_TYPES
            /\ ~ActivityHasSplits(d, activity_id)
    THEN <<[kind |-> "splits", date |-> None,
            outcome |-> info.detail, activity_id |-> activity_id]>>
    ELSE <<>>

\* the warnings _sync_exercise_sets and _sync_activity_splits report for
\* the detail requests that failed
DetailWarnings(reqs, sync_date) ==
    LET failed == SelectSeq(reqs, LAMBDA r : r.outcome = "error")
    IN [i \in 1..Len(failed) |->
          [event |-> "warning", kind |-> ACTIVITIES, date |-> sync_date]]

\* a loop that a failing detail request ends: the activity is not counted,
\* the date is counted as failed, the rest of the date is left out
RECURSIVE StoreActivitiesStopsAtError(_, _, _, _, _, _)
StoreActivitiesStopsAtError(d, st, reqs, activities, sync_date, infos) ==
    IF activities = <<>> THEN [db |-> d, stats |-> st, reqs |-> reqs]
    ELSE LET activity_id == Head(activities).activity_id
             info == infos[activity_id]
         IN IF ActivityExists(d, activity_id)
            THEN StoreActivitiesStopsAtError(
                        d, [st EXCEPT !.skipped = @ + 1], reqs,
                        Tail(activities), sync_date, infos)
            ELSE LET d1 == StoreActivity(d, activity_id, sync_date,
                                         info.activity_type)
                 IN IF info.detail = "error"
                    THEN [db |-> d1, stats |-> [st EXCEPT !.failed = @ + 1],
                          reqs |-> reqs \o DetailRequests(d1, activity_id, info)]
                    ELSE StoreActivitiesStopsAtError(
                            SyncActivityDetails(d1, activity_id, info),
                            [st EXCEPT !.completed = @ + 1],
                            reqs \o DetailRequests(d1, activity_id, info),
                            Tail(activities), sync_date, infos)

\* the loop of _sync_activities_for_date without the activity_exists test
RECURSIVE StoreActivitiesAgain(_, _, _, _, _, _)
StoreActivitiesAgain(d, st, reqs, activities, sync_date, infos) ==
    IF activities = <<>> THEN [db |-> d, stats |-> st, reqs |-> reqs]
    ELSE LET activity_id == Head(activities).activity_id
             info == infos[activity_id]
             d1 == StoreActivity(d, activity_id, sync_date, info.activity_type)
         IN StoreActivitiesAgain(
                SyncActivityDetails(d1, activity_id, info),
                [st EXCEPT !.completed = @ + 1],
                reqs \o DetailRequests(d1, activity_id, info),
                Tail(activities), sync_date, infos)

\* the loop of _sync_activities_for_date over the activities of the date
RECURSIVE StoreActivities(_, _, _, _, _, _)
StoreActivities(d, st, reqs, activities, sync_date, infos) ==
    IF activities = <<>> THEN [db |-> d, stats |-> st, reqs |-> reqs]
    ELSE LET activity_id == Head(activities).activity_id
             info == infos[activity_id]
         IN IF ActivityExists(d, activity_id)
            THEN StoreActivities(d, [st EXCEPT !.skipped = @ + 1], reqs,
                                 Tail(activities), sync_date, infos)
            ELSE LET d1 == StoreActivity(d, activity_id, sync_date,
                                         info.activity_type)
                 IN StoreActivities(
                        SyncActivityDetails(d1, activity_id, info),
                        [st EXCEPT !.completed = @ + 1],
                        reqs \o DetailRequests(d1, activity_id, info),
                        Tail(activities), sync_date, infos)

\* what GET /weight-service/weight/range/{start}/{end} does: raises, has no
\* data, has entries, has entries that lack a sample_pk
BodyResponses == {"error", "none", "entries", "entries_without_pk"}

\* total_tasks of sync_range
TotalTasks(date_count, metrics) ==
    date_count * Len(Without(metrics, {ACTIVITIES, BODY_COMPOSITION}))
    + (IF ACTIVITIES \in SeqToSet(metrics) THEN date_count ELSE 0)
    + (IF BODY_COMPOSITION \in SeqToSet(metrics) THEN 1 ELSE 0)

Task(phase, sync_date, metric_type) ==
    [phase |-> phase, date |-> sync_date, kind |-> metric_type]

\* the _sync_metric_for_date calls of sync_range, in its order
RECURSIVE MetricTasks(_, _)
MetricTasks(dates, non_activities_metrics) ==
    IF dates = <<>> THEN <<>>
    ELSE [i \in 1..Len(non_activities_metrics) |->
             Task("metric", Head(dates), non_activities_metrics[i])]
         \o MetricTasks(Tail(dates), non_activities_metrics)

\* the event end_sync reports
EndSyncEvent == [event |-> "end_sync", kind |-> "", date |-> None]

\* an exception that leaves sync_range with no cleanup
RaiseWithoutFinally(evts, exception) ==
    [events |-> evts, sync_result |-> exception]

\* the except and finally clauses of sync_range for an exception out of the
\* try block: `except Exception: raise` hands an Exception on, a
\* KeyboardInterrupt passes it by; the finally clause calls end_sync; the
\* exception leaves sync_range
RaiseFromTry(evts, exception) ==
    [events |-> Append(evts, EndSyncEvent), sync_result |-> exception]

\* ---- the parts a specification leaves alone ----------------------------

NoCall == [metric_date |-> None, kwargs |-> NoTable]

NoTsCall == [metric_type |-> "", data |-> <<>>, raised |-> FALSE,
             stored |-> FALSE]

TsIdle == ts_call = NoTsCall

NoTokens == [oauth1_token |-> None, oauth2_token |-> NoOAuth2]

NoRequest == [api |-> FALSE, needs_refresh |-> FALSE, refreshed |-> FALSE,
              result |-> "", headers |-> <<>>]

AuthIdle ==
    /\ now = 0
    /\ token_manager = NoTokens
    /\ minted = 0
    /\ api_requests = <<>>
    /\ auth_last = NoRequest

NoHttpRequest == [method |-> "", retry_count |-> 0, statuses |-> <<>>,
                  delays |-> <<>>, result |-> "idle"]

HttpIdle == http_req = NoHttpRequest

\* a token file: not there, a token document, or something else
NoFile == [content |-> "missing", token |-> None]

NoLoad == [called |-> FALSE, errors |-> <<>>, raised |-> "",
           oauth1_token |-> None, oauth2_token |-> None]

NoSave == [oauth1_token |-> None, oauth2_token |-> None]

FileIdle ==
    /\ token_files = [oauth1 |-> NoFile, oauth2 |-> NoFile]
    /\ save_todo = <<>>
    /\ save_args = NoSave
    /\ load_last = NoLoad

NoBackfillStats == [updated |-> 0, skipped |-> 0, failed |-> 0, total |-> 0]

NoDbCall ==
    [op |-> "none", targets |-> {}, splits |-> <<>>, stats |-> NoBackfillStats,
     result |-> ""]

CallIdle == db_call = NoDbCall

\* WorkoutBuilder(name): no step; no RepeatBuilder yet
NewWorkoutBuilder == [steps |-> <<>>, repeats |-> <<>>]

BuilderIdle ==
    /\ workout_builder = NewWorkoutBuilder
    /\ wb_calls = <<>>
    /\ wb_returned = 0

\* no strength activity stored, no exercise set
EmptyStrengthDB == [activities |-> NoTable, exercise_sets |-> NoTable]

StrengthIdle == strength_db = EmptyStrengthDB

\* no get_activities_for_date call in hand
NoGetCall == [pc |-> "idle", target_date |-> None, activities |-> <<>>]

LoopIdle == get_call = NoGetCall

\* no login or resume_login call made yet
NoLogin == [op |-> "", return_on_mfa |-> FALSE, outcome |-> "",
            client_state |-> FALSE]

LoginIdle == login_last = NoLogin

LateIdle == StrengthIdle /\ LoopIdle /\ LoginIdle

MoreIdle == CallIdle /\ BuilderIdle /\ LateIdle

OtherIdle == TsIdle /\ AuthIdle /\ HttpIdle /\ FileIdle /\ MoreIdle

StoreIdle ==
    /\ db = EmptyDB
    /\ hm_prev = NoCall
    /\ hm_last = NoCall
    /\ OtherIdle

NoArgs == [start_date |-> None, end_date |-> None, metrics |-> <<>>]

NoStats == [completed |-> 0, skipped |-> 0, failed |-> 0, total_tasks |-> 0]

NoRun == [args |-> NoArgs, db |-> EmptyDB, returned |-> FALSE]

SyncIdle ==
    /\ remote_metrics = NoTable
    /\ remote_details = NoTable
    /\ remote_body = NoTable
    /\ api_client = FALSE
    /\ sync_pc = "idle"
    /\ sync_args = NoArgs
    /\ todo = <<>>
    /\ stats = NoStats
    /\ sync_result = "none"
    /\ runs = 0
    /\ events = <<>>
    /\ requests = <<>>
    /\ first_run = NoRun

IterIdle ==
    /\ remote_activities = <<>>
    /\ list_fails = {}
    /\ iterator = NewIterator
    /\ it_calls = <<>>
    /\ it_returned = <<>>
    /\ it_last = <<>>
    /\ it_requests = <<>>
    /\ it_session = "new"
    /\ it_reset_from = 0

\* _get_activities_with_splits_missing_distance: the activities whose
\* distance_meters is null and that have a stored lap
ActivitiesWithSplitsMissingDistance(d) ==
    { a \in DOMAIN d.activities :
        d.activities[a].distance_meters = Null /\ ActivityHasSplits(d, a) }

\* backfill_activity_distance_from_splits, one activity of the list
BackfillActivity(d, activity_id) ==
    LET splits == GetActivitySplits(d, activity_id)
        activity_updates == ActivityUpdates(CalculateSplitsSummary(splits))
    IN IF splits = <<>> THEN [db |-> d, outcome |-> "skipped"]
       ELSE IF DOMAIN activity_updates # {}
       THEN [db |-> UpdateActivityDetails(d, activity_id, activity_updates),
             outcome |-> "updated"]
       ELSE [db |-> d, outcome |-> "skipped"]

\* backfill_activity_distance_from_splits: every activity of the list in
\* turn, newest first
RECURSIVE BackfillActivities(_, _, _)
BackfillActivities(d, activities, st) ==
    IF activities = {} THEN [db |-> d, stats |-> st]
    ELSE LET a == CHOOSE x \in activities :
                    \A y \in activities :
                        \/ d.activities[x].activity_date
                              > d.activities[y].activity_date
                        \/ /\ d.activities[x].activity_date
                                = d.activities[y].activity_date
                           /\ x >= y
             one == BackfillActivity(d, a)
         IN BackfillActivities(one.db, activities \ {a},
                               [st EXCEPT ![one.outcome] = @ + 1])

BackfillActivityDistanceFromSplits(d) ==
    LET activities == ActivitiesWithSplitsMissingDistance(d)
    IN BackfillActivities(d, activities,
                          [NoBackfillStats EXCEPT
                              !.total = Cardinality(activities)])

\* ---- the iterator used on its own ----------------------------------------

IterInit ==
    /\ remote_activities \in { l \in RemoteLists : NewestFirst(l) }
    /\ list_fails \in { {} } \cup { {k * BatchSize} : k \in 0..MaxActivities }
    /\ iterator = NewIterator
    /\ it_calls = <<>>
    /\ it_returned = <<>>
    /\ it_last = <<>>
    /\ it_requests = <<>>
    /\ it_session = "new"
    /\ it_reset_from = 0
    /\ StoreIdle
    /\ SyncIdle

\* SyncManager.initialize, lines 80-83: construct, then initialize().
IterInitialize ==
    /\ it_session = "new"
    /\ LET r == Initialize(iterator) IN
        /\ iterator' = r.it
        /\ it_requests' = r.reqs
    /\ it_session' = "initialize"
    /\ UNCHANGED <<remote_activities, list_fails, it_calls, it_returned,
                   it_last, it_reset_from, storeVars, hmVars, otherVars, syncVars>>

\* reset(), from any cursor state
IterReset ==
    /\ it_session # "new"
    /\ LET r == ResetIterator(iterator) IN
        /\ iterator' = r.it
        /\ it_requests' = r.reqs
    /\ it_calls' = <<>>
    /\ it_returned' = <<>>
    /\ it_last' = <<>>
    /\ it_session' = "reset"
    /\ it_reset_from' = iterator.batch_offset
    /\ UNCHANGED <<remote_activities, list_fails, storeVars, hmVars, otherVars, syncVars>>

\* get_activities_for_date(target_date), for any date
IterGet ==
    /\ it_session # "new"
    /\ Len(it_calls) < MaxCalls
    /\ \E target_date \in Dates :
        LET r == GetActivitiesForDate(iterator, target_date) IN
        /\ iterator' = r.it
        /\ it_last' = r.activities
        /\ it_returned' = it_returned \o r.activities
        /\ it_requests' = it_requests \o r.reqs
        /\ it_calls' = Append(it_calls, target_date)
    /\ UNCHANGED <<remote_activities, list_fails, it_session, it_reset_from,
                   storeVars, hmVars, otherVars, syncVars>>

IterNext == IterInitialize \/ IterReset \/ IterGet

SpecIter == IterInit /\ [][IterNext]_vars

\* ==== claims about the iterator ==========================================

Range(seq) == { seq[i] : i \in 1..Len(seq) }

StrictlyDecreasing(seq) ==
    \A i \in 1..Len(seq) - 1 : seq[i] > seq[i + 1]

\* the activities the iterator has fetched so far in this session
Fetched == SubSeq(remote_activities, 1, iterator.batch_offset)

NoRequestFailed == \A i \in 1..Len(it_requests) : it_requests[i] \notin list_fails

DatedAmong(list, days) ==
    LET Test(a) == ExtractActivityDate(a) \in days IN SelectSeq(list, Test)

DatedBetween(list, lo, hi) ==
    LET Test(a) == /\ ExtractActivityDate(a) # None
                   /\ ExtractActivityDate(a) >= lo
                   /\ ExtractActivityDate(a) <= hi
    IN SelectSeq(list, Test)

NoDuplicates(list) ==
    \A i, j \in 1..Len(list) : list[i] = list[j] => i = j

\* C8 as stated (for the runs in which no list request failed): after
\* strictly decreasing calls D_1 > ... > D_n on a freshly reset iterator the
\* concatenation of the returned lists is exactly the remote activities
\* dated from D_n to D_1.
C8_AsStated ==
    (it_session = "reset" /\ it_calls # <<>> /\ StrictlyDecreasing(it_calls)
        /\ NoRequestFailed)
    => it_returned = DatedBetween(remote_activities,
                                  it_calls[Len(it_calls)], it_calls[1])

\* C8, amended: after strictly decreasing calls D_1 > ... > D_n on a freshly
\* reset iterator the concatenation of the returned lists is exactly the
\* fetched remote activities dated on one of the D_i (all such remote
\* activities when no list request failed), in remote order, none twice;
\* activities dated strictly between two requested dates are dropped.
C8_ActivityDatePartition ==
    (it_session = "reset" /\ it_calls # <<>> /\ StrictlyDecreasing(it_calls))
    => /\ it_returned = DatedAmong(Fetched, Range(it_calls))
       /\ NoDuplicates(it_returned)
       /\ NoRequestFailed
            => it_returned = DatedAmong(remote_activities, Range(it_calls))

\* C8 witness: calls for day 3 then day 1 returned activities of both days
\* while the list also holds an activity of day 2.
C8_Witness ==
    /\ it_session = "reset"
    /\ it_calls = <<3, 1>>
    /\ \E a \in Range(it_returned) : a.start_time_local = 3
    /\ \E a \in Range(it_returned) : a.start_time_local = 1
    /\ \E a \in Range(Fetched) : a.start_time_local = 2

\* the position in the remote list of the first activity the iterator has
\* not consumed yet: the current activity, else the head of what follows
NextUnconsumed(it) ==
    IF it.current_activity # NoActivity THEN it.current_activity.activity_id
    ELSE it.batch_offset - Len(it.activities_cache) + 1

\* C9: a get_activities_for_date(D) call consumes only activities that are
\* undated or dated D or later; when it stops on an activity older than D
\* that activity stays the current one, unreturned, with all later entries
\* of the list still behind it, and a call with the current activity's own
\* date returns that activity first.
C9_StopsWithoutConsuming ==
    [][ \A D \in Dates : (it_calls' = Append(it_calls, D)) =>
        /\ \A i \in NextUnconsumed(iterator)..(NextUnconsumed(iterator') - 1) :
              \/ ExtractActivityDate(remote_activities[i]) = None
              \/ ExtractActivityDate(remote_activities[i]) >= D
        /\ iterator'.current_activity # NoActivity =>
              /\ iterator'.current_activity_date < D
              /\ iterator'.current_activity \notin Range(it_returned')
              /\ iterator'.current_activity =
                    remote_activities[NextUnconsumed(iterator')]
              /\ iterator'.activities_cache =
                    SubSeq(remote_activities, NextUnconsumed(iterator') + 1,
                           iterator'.batch_offset)
        /\ (iterator.current_activity # NoActivity
              /\ iterator.current_activity_date = D) =>
              (it_last' # <<>> /\ Head(it_last') = iterator.current_activity)
      ]_vars

\* C9 witness: after calls for days 3 and 2 that returned something, an
\* activity of day 1 is the current one and was not returned.
C9_Witness ==
    /\ it_session = "reset"
    /\ it_calls = <<3, 2>>
    /\ it_returned # <<>>
    /\ iterator.current_activity_date = 1
    /\ iterator.current_activity \notin Range(it_returned)

\* what a newly constructed and initialized iterator returns for a sequence
\* of get_activities_for_date calls, and the state it ends in
RECURSIVE Replay(_, _, _)
Replay(it, calls, returned) ==
    IF calls = <<>> THEN [it |-> it, returned |-> returned]
    ELSE LET r == GetActivitiesForDate(it, Head(calls)) IN
         Replay(r.it, Tail(calls), returned \o r.activities)

\* C10: after reset(), whatever the cursor state before, the iterator's
\* fields equal those of a newly constructed iterator after initialize(),
\* and the calls that follow return what that fresh iterator returns.
C10_ResetEqualsFresh ==
    it_session = "reset" =>
        LET fresh == Replay(Initialize(NewIterator).it, it_calls, <<>>) IN
        /\ iterator = fresh.it
        /\ it_returned = fresh.returned

\* C10 witness: a reset of a cursor that had moved past its first batch,
\* followed by calls that returned activities.
C10_Witness ==
    /\ it_session = "reset"
    /\ it_reset_from > BatchSize
    /\ it_calls # <<>>
    /\ it_returned # <<>>

\* The iterator is exhausted: end-of-data was reached, nothing fetched is
\* waiting in the cache, and no activity is pending as the current one (an
\* activity that was returned is consumed).
Exhausted(it, returned) ==
    /\ ~it.has_more_data
    /\ it.activities_cache = <<>>
    /\ \/ it.current_activity = NoActivity
       \/ it.current_activity \in Range(returned)

\* C11: a get_activities_for_date(D) call on an exhausted iterator, for any
\* date D, returns the empty list, sends no list request and leaves the
\* iterator exhausted - so every later call returns the empty list too.
C11_ExhaustedReturnsEmpty ==
    [][ \A D \in Dates :
          (it_calls' = Append(it_calls, D) /\ Exhausted(iterator, it_returned))
          => /\ it_last' = <<>>
             /\ it_returned' = it_returned
             /\ it_requests' = it_requests
             /\ Exhausted(iterator', it_returned')
      ]_vars

\* C11 witness: the calls before the last one returned activities and left
\* the iterator exhausted; the last call returned the empty list.
C11_Witness ==
    /\ it_session # "new"
    /\ Len(it_calls) >= 2
    /\ LET before == Replay(Initialize(NewIterator).it,
                            SubSeq(it_calls, 1, Len(it_calls) - 1), <<>>)
       IN /\ Exhausted(before.it, before.returned)
          /\ before.returned # <<>>
          /\ before.returned = it_returned
    /\ it_last = <<>>
    /\ Len(remote_activities) > BatchSize

\* ==== store_health_metric called directly ================================

StoreDates == {1, 2}

\* the keyword arguments of a call: any subset of the columns, each with a
\* value or None
KwargsSets ==
    UNION { [cols -> Values \cup {None}] : cols \in SUBSET Columns }

StoreInit ==
    /\ db = EmptyDB
    /\ hm_prev = NoCall
    /\ hm_last = NoCall
    /\ IterIdle
    /\ SyncIdle
    /\ OtherIdle

StoreHealthMetricCall ==
    /\ \E metric_date \in StoreDates, kwargs \in KwargsSets :
        /\ db' = StoreHealthMetric(db, metric_date, kwargs)
        /\ hm_prev' = hm_last
        /\ hm_last' = [metric_date |-> metric_date, kwargs |-> kwargs]
    /\ UNCHANGED <<iterVars, syncVars, otherVars>>

StoreNext == StoreHealthMetricCall

SpecStore == StoreInit /\ [][StoreNext]_vars

\* C1: after store_health_metric(user, date, F1) followed by
\* store_health_metric(user, date, F2), a column that F1 set to a non-null
\* value and F2 passes as null still holds its F1 value, and a column that
\* F2 passes non-null holds the F2 value.
C1_NullsDoNotClobber ==
    (hm_prev # NoCall /\ hm_last.metric_date = hm_prev.metric_date) =>
        LET F1 == hm_prev.kwargs
            F2 == hm_last.kwargs
            row == db.daily_health_metrics[hm_last.metric_date]
        IN \A c \in Columns :
            /\ (c \in DOMAIN F2 /\ F2[c] # None) => row[c] = F2[c]
            /\ (c \in DOMAIN F1 /\ F1[c] # None
                    /\ c \in DOMAIN F2 /\ F2[c] = None) => row[c] = F1[c]

\* a run that takes the activities before the per-date kinds
RunTasksActivitiesFirst(start_date, end_date, metrics) ==
    LET back == DateRange(end_date, start_date) IN
    (IF ACTIVITIES \in SeqToSet(metrics)
     THEN <<Task("reset", None, ACTIVITIES)>>
          \o [i \in 1..Len(back) |-> Task("activities", back[i], ACTIVITIES)]
     ELSE <<>>)
    \o MetricTasks(DateRange(start_date, end_date),
                   Without(metrics, {ACTIVITIES, BODY_COMPOSITION}))
    \o (IF BODY_COMPOSITION \in SeqToSet(metrics)
        THEN <<Task("body", None, BODY_COMPOSITION)>>
        ELSE <<>>)

\* the calls sync_range makes after the ledger rows exist, in its order
RunTasks(start_date, end_date, metrics) ==
    LET back == DateRange(end_date, start_date) IN
    MetricTasks(DateRange(start_date, end_date),
                Without(metrics, {ACTIVITIES, BODY_COMPOSITION}))
    \o (IF ACTIVITIES \in SeqToSet(metrics)
        THEN <<Task("reset", None, ACTIVITIES)>>
             \o [i \in 1..Len(back) |-> Task("activities", back[i], ACTIVITIES)]
        ELSE <<>>)
    \o (IF BODY_COMPOSITION \in SeqToSet(metrics)
        THEN <<Task("body", None, BODY_COMPOSITION)>>
        ELSE <<>>)

\* ==== sync_range over the per-date kinds =================================

\* the metrics arguments: lists of per-date kinds
PerDateKindLists ==
    {<<DAILY_SUMMARY>>, <<HEART_RATE>>,
     <<DAILY_SUMMARY, HEART_RATE>>, <<HEART_RATE, DAILY_SUMMARY>>}

SyncInit ==
    /\ remote_activities = <<>>
    /\ list_fails = {}
    /\ iterator = NewIterator
    /\ it_calls = <<>>
    /\ it_returned = <<>>
    /\ it_last = <<>>
    /\ it_requests = <<>>
    /\ it_session = "new"
    /\ it_reset_from = 0
    /\ StoreIdle
    /\ SyncIdle

\* SyncManager.initialize with usable credentials: the API client is made,
\* the iterator is constructed and initialized.  (With unusable credentials
\* initialize raises and changes nothing.)
SMInitialize ==
    /\ sync_pc = "idle"
    /\ ~api_client
    /\ api_client' = TRUE
    /\ LET r == Initialize(NewIterator) IN
        /\ iterator' = r.it
        /\ it_requests' = r.reqs
    /\ it_session' = "sync"
    /\ UNCHANGED <<remote_activities, list_fails, it_calls, it_returned,
                   it_last, it_reset_from, storeVars, hmVars, otherVars, remoteVars,
                   sync_pc, sync_args, todo, stats, sync_result, runs, events,
                   requests, first_run>>

\* sync_range up to its first task: the two checks, start_sync, the stats
\* dict, the pending ledger rows.
SyncRangeCall(start_date, end_date, metrics) ==
    LET date_count == DateCount(start_date, end_date) IN
    /\ sync_pc = "idle"
    /\ runs < MaxRuns
    /\ runs' = runs + 1
    /\ sync_args' = [start_date |-> start_date, end_date |-> end_date,
                     metrics |-> metrics]
    /\ IF ~api_client
       THEN /\ sync_result' = "RuntimeError"
            /\ UNCHANGED <<db, sync_pc, todo, stats, events, requests>>
       ELSE IF date_count > max_sync_days
       THEN /\ sync_result' = "ValueError"
            /\ UNCHANGED <<db, sync_pc, todo, stats, events, requests>>
       ELSE /\ sync_result' = "none"
            /\ sync_pc' = "running"
            /\ stats' = [completed |-> 0, skipped |-> 0, failed |-> 0,
                         total_tasks |-> TotalTasks(date_count, metrics)]
            /\ events' = <<[event |-> "start_sync", kind |-> "",
                            date |-> None]>>
            /\ requests' = <<>>
            /\ db' = CreateMissing(db, DateRange(start_date, end_date),
                                    metrics)
            /\ todo' = RunTasks(start_date, end_date, metrics)
    /\ UNCHANGED <<iterVars, hmVars, otherVars, remoteVars, api_client, first_run>>

\* The ranges a sync_range call is made with: any range for the first call;
\* a later call covers the same dates, in either direction.
Ranges ==
    IF runs = 0 THEN Dates \X Dates
    ELSE {<<sync_args.start_date, sync_args.end_date>>,
          <<sync_args.end_date, sync_args.start_date>>}

SyncRange ==
    \E range \in Ranges, metrics \in PerDateKindLists :
        SyncRangeCall(range[1], range[2], metrics)

\* one _sync_metric_for_date call of _sync_date
SyncMetricForDate ==
    /\ sync_pc = "running"
    /\ todo # <<>>
    /\ Head(todo).phase = "metric"
    /\ LET sync_date == Head(todo).date
           metric_type == Head(todo).kind
       IN IF IsMetricCompleted(db, metric_type, sync_date)
          THEN /\ stats' = [stats EXCEPT !.skipped = @ + 1]
               /\ events' = Append(events, [event |-> "task_skipped",
                                            kind |-> metric_type,
                                            date |-> sync_date])
               /\ UNCHANGED <<db, requests, remote_metrics>>
          ELSE \E data \in Fetch(sync_date, metric_type) :
               LET r == SyncFetched(db, stats, data, sync_date, metric_type) IN
               /\ remote_metrics' = Upsert(remote_metrics,
                                           <<sync_date, metric_type>>, data)
               /\ requests' = Append(requests, [kind |-> metric_type,
                                                date |-> sync_date,
                                                outcome |-> data.outcome])
               /\ db' = r.db
               /\ stats' = r.stats
               /\ events' = Append(events, [event |-> r.event,
                                            kind |-> metric_type,
                                            date |-> sync_date])
    /\ todo' = Tail(todo)
    /\ UNCHANGED <<iterVars, hmVars, otherVars, remote_details, remote_body, api_client,
                   sync_pc, sync_args, sync_result, runs, first_run>>

\* the end of sync_range: end_sync in the finally clause, the stats returned
EndSync ==
    /\ sync_pc = "running"
    /\ todo = <<>>
    /\ sync_pc' = "idle"
    /\ sync_result' = "returned"
    /\ events' = Append(events, [event |-> "end_sync", kind |-> "",
                                 date |-> None])
    /\ first_run' = IF runs = 1
                    THEN [args |-> sync_args, db |-> db, returned |-> TRUE]
                    ELSE first_run
    /\ UNCHANGED <<iterVars, storeVars, hmVars, otherVars, remoteVars, api_client,
                   sync_args, todo, stats, runs, requests>>

SyncNext ==
    \/ SMInitialize
    \/ SyncRange
    \/ SyncMetricForDate
    \/ EndSync

SpecSync == SyncInit /\ [][SyncNext]_vars

\* ==== claims about sync_range over the per-date kinds ====================

\* a step that is one _sync_metric_for_date call
MetricTaskStep ==
    /\ sync_pc = "running"
    /\ todo # <<>>
    /\ Head(todo).phase = "metric"
    /\ todo' = Tail(todo)

\* the (date, kind) tasks of the sync_range call in progress
TasksOfRun ==
    SeqToSet(DateRange(sync_args.start_date, sync_args.end_date))
        \X SeqToSet(sync_args.metrics)

HasEvent(name, sync_date, metric_type) ==
    \E i \in 1..Len(events) :
        events[i] = [event |-> name, kind |-> metric_type, date |-> sync_date]

\* the days from one date to the other, both included
DaysSpanned(a, b) ==
    Cardinality({d \in Dates : (a <= d /\ d <= b) \/ (b <= d /\ d <= a)})

\* C3 (as stated): when sync_range has run twice with the same arguments
\* and unchanged remote data, the store after the second run equals the
\* store after the first and the second run's stats have completed = 0.
C3_RerunIdempotent ==
    (runs = 2 /\ sync_result = "returned" /\ first_run.returned
        /\ sync_args = first_run.args)
    => (db = first_run.db /\ stats.completed = 0)

\* what a response makes the try block of a task do
Raises(data, metric_type) ==
    \/ data.outcome # "ok"
    \/ /\ metric_type \in TimeseriesKinds
       /\ \E i \in 1..Len(data.heart_rate_values_array) :
             /\ data.heart_rate_values_array[i].value # None
             /\ data.heart_rate_values_array[i].timestamp = None

\* C4: when the fetch, parse or store of a per-date task (D, K) raises, the
\* ledger row (D, K) becomes FAILED with the error's message, failed grows by
\* one, the run goes on with the next task; and a run returns only when
\* every one of its tasks has been attempted.
C4_TaskErrorIsContained ==
    [][ /\ MetricTaskStep =>
            LET D == Head(todo).date
                K == Head(todo).kind
            IN (requests' # requests /\ Raises(remote_metrics'[<<D, K>>], K))
               => /\ db'.sync_status[<<D, K>>].status = "failed"
                  /\ db'.sync_status[<<D, K>>].error_message =
                        (IF remote_metrics'[<<D, K>>].outcome # "ok"
                         THEN ErrorMessage(remote_metrics'[<<D, K>>].outcome)
                         ELSE ErrorMessage("store"))
                  /\ stats'.failed = stats.failed + 1
                  /\ stats'.completed = stats.completed
                  /\ stats'.skipped = stats.skipped
                  /\ events' = Append(events, [event |-> "task_failed",
                                               kind |-> K, date |-> D])
                  /\ sync_pc' = "running"
        /\ (sync_pc = "running" /\ sync_pc' = "idle")
            => /\ sync_result' = "returned"
               /\ \A t \in TasksOfRun :
                     \/ HasEvent("task_failed", t[1], t[2])
                     \/ HasEvent("task_complete", t[1], t[2])
                     \/ HasEvent("task_skipped", t[1], t[2])
               /\ stats.completed + stats.skipped + stats.failed
                     = stats.total_tasks
      ]_vars

\* a run that returned although a fetch and a store raised in it, with
\* tasks attempted after the failing fetch
C4_Witness ==
    /\ sync_result = "returned"
    /\ \E i \in 1..Len(requests) :
          /\ requests[i].outcome = "error"
          /\ i < Len(requests)
          /\ db.sync_status[<<requests[i].date, requests[i].kind>>].status
                = "failed"
    /\ \E k \in DOMAIN db.sync_status :
          db.sync_status[k].error_message = ErrorMessage("store")
    /\ stats.failed >= 2

\* C5 (as stated): an authentication error raised by an API call of a run
\* aborts the run: no task is attempted after it and sync_range does not
\* return stats.
C5_AuthErrorAborts ==
    \A i \in 1..Len(requests) :
        requests[i].outcome = "auth_error"
        => /\ i = Len(requests)
           /\ sync_result # "returned"

\* C6: a per-date task (D, K) is skipped - no request, no write, the ledger
\* row as it was, task_skipped reported, skipped incremented - exactly when
\* its ledger row is COMPLETED as the task is reached; with a PENDING,
\* FAILED or SKIPPED row the data is requested again.
C6_SkipIffCompleted ==
    [][ MetricTaskStep =>
          LET D == Head(todo).date
              K == Head(todo).kind
              state == GetSyncStatus(db, D, K)
          IN /\ state \in {"pending", "completed", "failed", "skipped"}
             /\ (state = "completed")
                  => /\ requests' = requests
                     /\ remote_metrics' = remote_metrics
                     /\ db' = db
                     /\ events' = Append(events, [event |-> "task_skipped",
                                                  kind |-> K, date |-> D])
                     /\ stats' = [stats EXCEPT !.skipped = @ + 1]
             /\ (state # "completed")
                  => /\ \E o \in Outcomes :
                          requests' = Append(requests,
                              [kind |-> K, date |-> D, outcome |-> o])
                     /\ ~ \E e \in SeqToSet(events') \ SeqToSet(events) :
                            e.event = "task_skipped"
      ]_vars

\* a second run that skipped a COMPLETED task and requested again the data
\* of a task the first run left FAILED and of one it left SKIPPED
C6_Witness ==
    /\ runs = 2
    /\ first_run.returned
    /\ \E i \in 1..Len(events) :
          /\ events[i].event = "task_skipped"
          /\ first_run.db.sync_status[<<events[i].date, events[i].kind>>].status
                = "completed"
    /\ \A state \in {"failed", "skipped"} :
          \E i \in 1..Len(requests) :
              LET k == <<requests[i].date, requests[i].kind>> IN
              /\ k \in DOMAIN first_run.db.sync_status
              /\ first_run.db.sync_status[k].status = state

\* C7: a sync_range call whose range spans more than max_sync_days days
\* sends no request and writes no row; on an initialized manager it fails
\* with ValueError (before initialize() the earlier check fails first).
C7_RangeTooLargeBeforeIO ==
    [][ (runs' = runs + 1
            /\ DaysSpanned(sync_args'.start_date, sync_args'.end_date)
                  > max_sync_days)
        => /\ api_client => sync_result' = "ValueError"
           /\ sync_result' \in {"ValueError", "RuntimeError"}
           /\ sync_pc' = "idle"
           /\ db' = db
           /\ requests' = requests
           /\ it_requests' = it_requests
           /\ remote_metrics' = remote_metrics
           /\ todo' = todo
      ]_vars

\* an initialized manager refused a three-day range
C7_Witness ==
    /\ api_client
    /\ sync_result = "ValueError"
    /\ DaysSpanned(sync_args.start_date, sync_args.end_date) = max_sync_days + 1

\* ==== sync_range over every kind ==========================================

\* the longest remote activities list of a full run
SyncMaxActivities == 2

\* the metrics arguments of a full run; the first is the default, metrics=None
AllKindLists ==
    {AllMetricTypes, <<ACTIVITIES>>, <<BODY_COMPOSITION, ACTIVITIES>>}

\* the per-date responses of a full run: a daily summary or an API error,
\* a heart-rate response with a reading
FewResponses(metric_type) ==
    IF metric_type = DAILY_SUMMARY
    THEN {Response("ok", 1, 2, <<>>), Response("error", None, None, <<>>)}
    ELSE {Response("ok", None, 1, <<Reading(1, 1)>>)}

SyncAllInit ==
    /\ remote_activities \in {l \in RemoteLists :
                                 Len(l) <= SyncMaxActivities /\ NewestFirst(l)}
    /\ list_fails \in {{}, {0}}
    /\ iterator = NewIterator
    /\ it_calls = <<>>
    /\ it_returned = <<>>
    /\ it_last = <<>>
    /\ it_requests = <<>>
    /\ it_session = "new"
    /\ it_reset_from = 0
    /\ StoreIdle
    /\ SyncIdle

SyncRangeAll ==
    \E range \in Ranges, metrics \in AllKindLists :
        SyncRangeCall(range[1], range[2], metrics)

\* one _sync_metric_for_date call of a full run
SyncMetricForDateAll ==
    /\ sync_pc = "running"
    /\ todo # <<>>
    /\ Head(todo).phase = "metric"
    /\ LET sync_date == Head(todo).date
           metric_type == Head(todo).kind
       IN IF IsMetricCompleted(db, metric_type, sync_date)
          THEN /\ stats' = [stats EXCEPT !.skipped = @ + 1]
               /\ events' = Append(events, [event |-> "task_skipped",
                                            kind |-> metric_type,
                                            date |-> sync_date])
               /\ UNCHANGED <<db, requests, remote_metrics>>
          ELSE \E data \in IF <<sync_date, metric_type>> \in DOMAIN remote_metrics
                           THEN {remote_metrics[<<sync_date, metric_type>>]}
                           ELSE FewResponses(metric_type) :
               LET r == SyncFetched(db, stats, data, sync_date, metric_type) IN
               /\ remote_metrics' = Upsert(remote_metrics,
                                           <<sync_date, metric_type>>, data)
               /\ requests' = Append(requests, [kind |-> metric_type,
                                                date |-> sync_date,
                                                outcome |-> data.outcome])
               /\ db' = r.db
               /\ stats' = r.stats
               /\ events' = Append(events, [event |-> r.event,
                                            kind |-> metric_type,
                                            date |-> sync_date])
    /\ todo' = Tail(todo)
    /\ UNCHANGED <<iterVars, hmVars, otherVars, remote_details, remote_body, api_client,
                   sync_pc, sync_args, sync_result, runs, first_run>>

\* sync_range resets the iterator before the activities of a run
SyncActivitiesReset ==
    /\ sync_pc = "running"
    /\ todo # <<>>
    /\ Head(todo).phase = "reset"
    /\ LET r == ResetIterator(iterator) IN
        /\ iterator' = r.it
        /\ it_requests' = r.reqs
    /\ it_calls' = <<>>
    /\ it_returned' = <<>>
    /\ it_last' = <<>>
    /\ it_session' = "reset"
    /\ it_reset_from' = iterator.batch_offset
    /\ todo' = Tail(todo)
    /\ UNCHANGED <<remote_activities, list_fails, storeVars, hmVars, otherVars,
                   remoteVars, api_client, sync_pc, sync_args, stats,
                   sync_result, runs, events, requests, first_run>>

\* _sync_activities_for_date: the iterator's activities of the date, each
\* stored with its details unless the store has it.  The ledger is not
\* written.
SyncActivitiesForDate ==
    /\ sync_pc = "running"
    /\ todo # <<>>
    /\ Head(todo).phase = "activities"
    /\ LET sync_date == Head(todo).date
           g == GetActivitiesForDate(iterator, sync_date)
           ids == {g.activities[i].activity_id : i \in 1..Len(g.activities)}
       IN \E fresh \in [ids \ DOMAIN remote_details -> ActivityInfos] :
          LET infos == [id \in DOMAIN remote_details \cup ids |->
                            IF id \in DOMAIN remote_details
                            THEN remote_details[id] ELSE fresh[id]]
              r == StoreActivities(db, stats, <<>>, g.activities, sync_date,
                                   infos)
          IN /\ remote_details' = infos
             /\ iterator' = g.it
             /\ it_last' = g.activities
             /\ it_returned' = it_returned \o g.activities
             /\ it_requests' = it_requests \o g.reqs
             /\ it_calls' = Append(it_calls, sync_date)
             /\ db' = r.db
             /\ stats' = r.stats
             /\ requests' = requests \o r.reqs
             /\ events' = Append(events \o DetailWarnings(r.reqs, sync_date),
                                 [event |-> "task_complete",
                                  kind |-> ACTIVITIES,
                                  date |-> sync_date])
    /\ todo' = Tail(todo)
    /\ UNCHANGED <<remote_activities, list_fails, it_session, it_reset_from,
                   hmVars, otherVars, remote_metrics, remote_body, api_client, sync_pc,
                   sync_args, sync_result, runs, first_run>>

\* _sync_body_composition_batch: one request for the range.  HealthDB has no
\* body_composition_exists, so the first entry with a sample_pk raises
\* AttributeError, which the except clause counts as a failure.  The ledger
\* is not written.
SyncBodyCompositionBatch ==
    /\ sync_pc = "running"
    /\ todo # <<>>
    /\ Head(todo).phase = "body"
    /\ LET range == <<sync_args.start_date, sync_args.end_date>> IN
       \E data \in IF range \in DOMAIN remote_body THEN {remote_body[range]}
                   ELSE BodyResponses :
          /\ remote_body' = Upsert(remote_body, range, data)
          /\ requests' = Append(requests, [kind |-> BODY_COMPOSITION,
                                           date |-> None,
                                           outcome |-> IF data = "error"
                                                       THEN "error" ELSE "ok"])
          /\ IF data \in {"error", "entries"}
             THEN /\ stats' = [stats EXCEPT !.failed = @ + 1]
                  /\ events' = Append(events, [event |-> "error",
                                               kind |-> BODY_COMPOSITION,
                                               date |-> None])
             ELSE /\ events' = Append(events, [event |-> "info",
                                               kind |-> BODY_COMPOSITION,
                                               date |-> None])
                  /\ UNCHANGED stats
    /\ todo' = Tail(todo)
    /\ UNCHANGED <<iterVars, storeVars, hmVars, otherVars, remote_metrics, remote_details,
                   api_client, sync_pc, sync_args, sync_result, runs,
                   first_run>>

SyncAllNext ==
    \/ SMInitialize
    \/ SyncRangeAll
    \/ SyncMetricForDateAll
    \/ SyncActivitiesReset
    \/ SyncActivitiesForDate
    \/ SyncBodyCompositionBatch
    \/ EndSync

SpecSyncAll == SyncAllInit /\ [][SyncAllNext]_vars

\* ==== claims about sync_range over every kind =============================

\* C2 (as stated): when sync_range returns, every (date, kind) of the run -
\* per-date kinds, ACTIVITIES and BODY_COMPOSITION alike - has a ledger row
\* whose state is COMPLETED, SKIPPED or FAILED.
C2_LedgerTotalOnReturn ==
    sync_result = "returned"
    => \A t \in TasksOfRun :
          /\ t \in DOMAIN db.sync_status
          /\ db.sync_status[t].status \in {"completed", "skipped", "failed"}

\* ==== store_timeseries_batch on its own ==================================

\* the longest batch
MaxBatchLen == 2

\* the (timestamp, value) tuples of a batch: complete ones, one without a
\* value, one without a timestamp
Tuples ==
    {Reading(1, 1), Reading(1, 2), Reading(1, None), Reading(None, 1)}

Batches == UNION {[1..n -> Tuples] : n \in 0..MaxBatchLen}

TsInit ==
    /\ db = EmptyDB
    /\ hm_prev = NoCall
    /\ hm_last = NoCall
    /\ ts_call = NoTsCall
    /\ IterIdle
    /\ SyncIdle
    /\ AuthIdle
    /\ HttpIdle
    /\ FileIdle
    /\ MoreIdle

\* store_timeseries_batch(user, metric_type, data): a raise rolls the
\* session back, nothing of the batch is stored.
StoreBatch(metric_type, data) ==
    /\ ts_call' = [metric_type |-> metric_type, data |-> data,
                   raised |-> StoreTimeseriesRaises(data), stored |-> TRUE]
    /\ db' = IF StoreTimeseriesRaises(data) THEN db
             ELSE StoreTimeseriesBatch(db, metric_type, data)

\* a direct call, any kind and batch
StoreTimeseriesBatchCall ==
    /\ \E metric_type \in AllTimeseriesKinds, data \in Batches :
          StoreBatch(metric_type, data)
    /\ UNCHANGED <<iterVars, hmVars, syncVars, authVars, httpVars, fileVars,
                   moreVars>>

\* the timeseries part of _sync_metric_for_date: the readings of a response
\* are extracted and, when any tuple came out, stored
ExtractAndStoreTimeseries ==
    /\ \E metric_type \in AllTimeseriesKinds, readings \in Batches :
          LET timeseries_data == ExtractTimeseriesFor(readings, metric_type)
          IN IF timeseries_data # <<>>
             THEN StoreBatch(metric_type, timeseries_data)
             ELSE /\ ts_call' = [metric_type |-> metric_type,
                                 data |-> timeseries_data,
                                 raised |-> FALSE, stored |-> FALSE]
                  /\ UNCHANGED db
    /\ UNCHANGED <<iterVars, hmVars, syncVars, authVars, httpVars, fileVars,
                   moreVars>>

TsNext == StoreTimeseriesBatchCall \/ ExtractAndStoreTimeseries

SpecTimeseries == TsInit /\ [][TsNext]_vars

\* the tuples of a batch that carry a value and the given timestamp
Valued(data, timestamp) ==
    {i \in 1..Len(data) :
        data[i].value # None /\ data[i].timestamp = timestamp}

Last(S) == CHOOSE i \in S : \A j \in S : j <= i

\* C12: no stored timeseries row has a null value; a batch store, for each
\* of the four kinds, skips the tuples without a value and leaves every
\* (kind, timestamp) row holding the value of the last tuple of the batch
\* with that timestamp, other rows as they were.  (A tuple with a value but
\* no timestamp cannot be keyed: the store raises and keeps nothing of the
\* batch.)
C12_NoNullTimeseriesValue ==
    [][ /\ \A k \in DOMAIN db'.timeseries : db'.timeseries[k] # None
        /\ (ts_call'.stored /\ ts_call'.raised) => db' = db
        /\ ts_call'.raised
             <=> (ts_call'.stored /\ Valued(ts_call'.data, None) # {})
        /\ (ts_call'.stored /\ ~ts_call'.raised) =>
              \A kind \in AllTimeseriesKinds, t \in {1} :
                 LET key == <<kind, t>>
                     hits == Valued(ts_call'.data, t)
                 IN IF kind = ts_call'.metric_type /\ hits # {}
                    THEN /\ key \in DOMAIN db'.timeseries
                         /\ db'.timeseries[key] =
                               ts_call'.data[Last(hits)].value
                    ELSE /\ key \in DOMAIN db'.timeseries
                               <=> key \in DOMAIN db.timeseries
                         /\ key \in DOMAIN db.timeseries
                               => db'.timeseries[key] = db.timeseries[key]
      ]_vars

\* C12 witness: a respiration batch reached the store with a tuple without
\* a value next to a complete one; the complete one is stored, rows of
\* other kinds are there too.
C12_Witness ==
    /\ ts_call.metric_type = RESPIRATION
    /\ ts_call.stored /\ ~ts_call.raised
    /\ \E i \in 1..Len(ts_call.data) : ts_call.data[i].value = None
    /\ Valued(ts_call.data, 1) # {}
    /\ <<RESPIRATION, 1>> \in DOMAIN db.timeseries
    /\ \A kind \in AllTimeseriesKinds :
          \E k \in DOMAIN db.timeseries : k[1] = kind

\* ==== authenticated requests ============================================

MaxTime == 3
MaxTokens == 3
MaxRequests == 2

\* token files found at construction: each token there or not, the OAuth2
\* token with any expiry
StoredOAuth2 ==
    {NoOAuth2} \cup {[access_token |-> 0, expires_at |-> e,
                  refresh_token_expires_at |-> r] : e \in 1..2, r \in 1..3}

\* AuthClient.__init__: load_tokens fills the manager from storage
AuthInit ==
    /\ now = 0
    /\ token_manager \in [oauth1_token : {None, 1}, oauth2_token : StoredOAuth2]
    /\ minted = 0
    /\ api_requests = <<>>
    /\ auth_last = NoRequest
    /\ db = EmptyDB
    /\ hm_prev = NoCall
    /\ hm_last = NoCall
    /\ TsIdle
    /\ HttpIdle
    /\ FileIdle
    /\ MoreIdle
    /\ IterIdle
    /\ SyncIdle

AuthOthers ==
    <<iterVars, storeVars, hmVars, syncVars, tsVars, httpVars, fileVars,
      moreVars>>

\* time passes
Tick ==
    /\ now < MaxTime
    /\ now' = now + 1
    /\ UNCHANGED <<token_manager, minted, api_requests, auth_last>>
    /\ UNCHANGED AuthOthers

\* AuthClient.login with good credentials: both tokens are set
Login ==
    /\ minted < MaxTokens
    /\ minted' = minted + 1
    /\ token_manager' = [oauth1_token |-> 1,
                         oauth2_token |-> IssuedToken(minted + 1)]
    /\ UNCHANGED <<now, api_requests, auth_last>>
    /\ UNCHANGED AuthOthers

\* AuthClient.logout
Logout ==
    /\ token_manager # NoTokens
    /\ token_manager' = NoTokens
    /\ UNCHANGED <<now, minted, api_requests, auth_last>>
    /\ UNCHANGED AuthOthers

\* APIClient.request(method, subdomain, path, api): the headers come first,
\* execute_request sends only when they were built
Request(api, exchange) ==
    /\ Len(api_requests) < MaxRequests
    /\ minted < MaxTokens
    /\ LET h == IF api THEN GetAuthHeaders(token_manager, exchange)
                ELSE [tm |-> token_manager, raised |-> "",
                      refreshed |-> FALSE, headers |-> <<>>]
       IN /\ token_manager' = h.tm
          /\ minted' = IF h.tm = token_manager THEN minted ELSE minted + 1
          /\ api_requests' = IF h.raised = ""
                             THEN Append(api_requests, h.headers)
                             ELSE api_requests
          /\ auth_last' = [api |-> api,
                           needs_refresh |-> NeedsRefresh(token_manager),
                           refreshed |-> h.refreshed,
                           result |-> IF h.raised = "" THEN "sent"
                                      ELSE h.raised,
                           headers |-> h.headers]
    /\ UNCHANGED now
    /\ UNCHANGED AuthOthers

AuthNext ==
    \/ Tick
    \/ Login
    \/ Logout
    \/ \E api \in BOOLEAN, exchange \in ExchangeOutcomes :
          Request(api, exchange)

SpecAuth == AuthInit /\ [][AuthNext]_vars

\* C13: on an authenticated request, a manager that needs a refresh is
\* refreshed before the header is built and the request carries the new
\* token; when the refresh fails or there are no usable tokens, AuthError
\* is raised and nothing is sent.
C13_RefreshBeforeHeader ==
    [][ (\E exchange \in ExchangeOutcomes : Request(TRUE, exchange)) =>
          /\ NeedsRefresh(token_manager) =>
                \/ /\ auth_last'.result = "sent"
                   /\ minted' = minted + 1
                   /\ token_manager'.oauth2_token.access_token = minted'
                   /\ api_requests' =
                         Append(api_requests, <<"Bearer", minted'>>)
                \/ /\ auth_last'.result = "AuthError"
                   /\ api_requests' = api_requests
          /\ (~NeedsRefresh(token_manager) /\ ~IsAuthenticated(token_manager))
                => /\ auth_last'.result = "AuthError"
                   /\ api_requests' = api_requests
      ]_vars

\* C14: is_authenticated holds exactly when both tokens are there and the
\* OAuth2 token has not expired; needs_refresh exactly when both are there,
\* the OAuth2 token has expired and its refresh token has not; never both.
C14_TokenPredicates ==
    LET both == token_manager.oauth1_token # None
                /\ token_manager.oauth2_token # NoOAuth2
        t == token_manager.oauth2_token
    IN /\ IsAuthenticated(token_manager)
            <=> (both /\ now < t.expires_at)
       /\ NeedsRefresh(token_manager)
            <=> (both /\ now >= t.expires_at
                      /\ now < t.refresh_token_expires_at)
       /\ ~(IsAuthenticated(token_manager) /\ NeedsRefresh(token_manager))

\* C14 witness: a manager that was authenticated now needs a refresh, and
\* one whose refresh token has run out as well
C14_Witness ==
    /\ token_manager.oauth1_token # None
    /\ token_manager.oauth2_token # NoOAuth2
    /\ Expired(token_manager.oauth2_token)
    /\ RefreshExpired(token_manager.oauth2_token)
    /\ ~NeedsRefresh(token_manager)
    /\ auth_last.result = "sent"
    /\ auth_last.refreshed

\* ==== execute_request ===================================================

MaxRetryCount == 2

HttpInit ==
    /\ http_req = NoHttpRequest
    /\ db = EmptyDB
    /\ hm_prev = NoCall
    /\ hm_last = NoCall
    /\ TsIdle
    /\ AuthIdle
    /\ FileIdle
    /\ MoreIdle
    /\ IterIdle
    /\ SyncIdle

HttpOthers ==
    <<iterVars, storeVars, hmVars, syncVars, tsVars, authVars, fileVars,
      moreVars>>

\* execute_request(method, url) on a client built with retries=retry_count
ExecuteRequest(method, retry_count) ==
    /\ http_req.result # ""
    /\ http_req' = [method |-> method, retry_count |-> retry_count,
                    statuses |-> <<>>, delays |-> <<>>, result |-> ""]
    /\ UNCHANGED HttpOthers

\* the vendor answers the attempt in hand
Respond(status) ==
    /\ http_req.result = ""
    /\ http_req' = ExecuteAttempt(http_req, status)
    /\ UNCHANGED HttpOthers

HttpNext ==
    \/ \E method \in Methods, retry_count \in 0..MaxRetryCount :
          ExecuteRequest(method, retry_count)
    \/ \E status \in StatusCodes : Respond(status)

SpecHttp == HttpInit /\ [][HttpNext]_vars

Finished(req) == req.result \notin {"", "idle"}

AllRetryable(req) ==
    \A i \in 1..Len(req.statuses) : req.statuses[i] \in RETRYABLE_CODES

\* C15: a request whose every attempt got a retryable status was retried
\* exactly retry_count times and then failed with APIError.
C15_ExhaustedRetriesRaiseAPIError ==
    (Finished(http_req) /\ AllRetryable(http_req)) =>
        /\ Len(http_req.delays) = http_req.retry_count
        /\ Len(http_req.statuses) = http_req.retry_count + 1
        /\ http_req.result = "APIError"

\* C16: an attempt is repeated only after a status of the retryable set,
\* never more than retry_count times (none with retry_count = 0), each time
\* after a pause of backoff_factor doubled per retry; a 2xx or a
\* non-retryable 4xx ends the request at its first attempt.
C16_RetryOnlyRetryable ==
    LET n == Len(http_req.statuses)
        retries == Len(http_req.delays)
    IN /\ retries <= http_req.retry_count
       /\ n <= http_req.retry_count + 1
       /\ retries = IF Finished(http_req) THEN n - 1 ELSE n
       /\ \A i \in 1..retries :
             /\ http_req.statuses[i] \in {408, 429, 500, 502, 503, 504}
             /\ http_req.delays[i] = 2 ^ (i - 1)
       /\ (n >= 1 /\ http_req.statuses[1] \in {200, 404}) =>
             /\ n = 1
             /\ retries = 0
             /\ Finished(http_req)

\* C16 witness: a request was retried as often as allowed after retryable
\* statuses and then answered
C16_Witness ==
    /\ http_req.retry_count = MaxRetryCount
    /\ Len(http_req.delays) = MaxRetryCount
    /\ http_req.result = "response"
    /\ http_req.statuses[1] # http_req.statuses[2]

\* ==== token files ========================================================

\* the files found in the profile directory
StoredFiles ==
    {NoFile, [content |-> "token", token |-> 1],
     [content |-> "malformed_json", token |-> None],
     [content |-> "invalid_structure", token |-> None]}

\* the token a save writes
NewToken == 2

FileInit ==
    /\ token_files \in [TokenFileNames -> StoredFiles]
    /\ save_todo = <<>>
    /\ save_args = NoSave
    /\ load_last = NoLoad
    /\ db = EmptyDB
    /\ hm_prev = NoCall
    /\ hm_last = NoCall
    /\ TsIdle
    /\ AuthIdle
    /\ HttpIdle
    /\ MoreIdle
    /\ IterIdle
    /\ SyncIdle

FileOthers ==
    <<iterVars, storeVars, hmVars, syncVars, tsVars, authVars, httpVars,
      moreVars>>

\* load_tokens(), at any time, also while a save is under way
LoadTokensCall ==
    /\ \E errors \in [TokenFileNames -> Errnos] :
          LET r == LoadTokens(token_files, errors)
          IN load_last' = [called |-> TRUE, errors |-> errors,
                           raised |-> r.raised,
                           oauth1_token |-> r.oauth1_token,
                           oauth2_token |-> r.oauth2_token]
    /\ UNCHANGED <<token_files, save_todo, save_args>>
    /\ UNCHANGED FileOthers

\* save_tokens(oauth1_token, oauth2_token) is entered
SaveTokensCall ==
    /\ save_todo = <<>>
    /\ \E oauth1_token \in {None, NewToken}, oauth2_token \in {None, NewToken} :
          /\ save_args' = [oauth1_token |-> oauth1_token,
                           oauth2_token |-> oauth2_token]
          /\ save_todo' = SaveSteps(oauth1_token, oauth2_token)
    /\ UNCHANGED <<token_files, load_last>>
    /\ UNCHANGED FileOthers

\* the save does its next file operation
SaveTokensStep ==
    /\ save_todo # <<>>
    /\ token_files' = SaveStep(token_files, Head(save_todo), save_args)
    /\ save_todo' = Tail(save_todo)
    /\ UNCHANGED <<save_args, load_last>>
    /\ UNCHANGED FileOthers

\* the process dies during a save; the files stay as they are
Crash ==
    /\ save_todo # <<>>
    /\ save_todo' = <<>>
    /\ UNCHANGED <<token_files, save_args, load_last>>
    /\ UNCHANGED FileOthers

FileNext ==
    \/ LoadTokensCall
    \/ SaveTokensCall
    \/ SaveTokensStep
    \/ Crash

SpecFiles == FileInit /\ [][FileNext]_vars

\* what a load gets from one file when nothing is raised
Usable(file, errno) ==
    file.content = "token" /\ errno = "ok"

Fatal(file, errno) ==
    file.content # "missing" /\ errno \in {"EACCES", "ENOSPC", "EROFS"}

\* C17: a load reads each file on its own: a missing, malformed or invalid
\* file gives null for that file and the other file's token is still
\* returned; a permission error or ENOSPC/EROFS on a file is raised to the
\* caller.
C17_LoadPerFile ==
    [][ (load_last' # load_last) =>
          LET errors == load_last'.errors
              f1 == token_files.oauth1
              f2 == token_files.oauth2
          IN /\ load_last'.raised # ""
                  <=> (Fatal(f1, errors.oauth1) \/ Fatal(f2, errors.oauth2))
             /\ load_last'.raised = "" =>
                  /\ load_last'.oauth1_token =
                        IF Usable(f1, errors.oauth1) THEN f1.token ELSE None
                  /\ load_last'.oauth2_token =
                        IF Usable(f2, errors.oauth2) THEN f2.token ELSE None
             /\ (Fatal(f1, errors.oauth1) /\ errors.oauth1 = "EACCES")
                  => load_last'.raised = "PermissionError"
             /\ (Fatal(f1, errors.oauth1) /\ errors.oauth1 # "EACCES")
                  => load_last'.raised = "OSError"
      ]_vars

\* C17 witness: a load returned the OAuth2 token although the OAuth1 file
\* was not JSON
C17_Witness ==
    /\ load_last.called
    /\ load_last.raised = ""
    /\ token_files.oauth1.content = "malformed_json"
    /\ load_last.oauth1_token = None
    /\ load_last.oauth2_token = 1
    /\ save_todo = <<>>

\* C18: a token file is never left or seen partly written: at every moment
\* (a crash or a load can come at any) each file holds a complete document,
\* the old or the new one, or what it held before any save.
C18_AtomicSave ==
    \A name \in TokenFileNames : token_files[name].content # "truncated"

\* the activities of a date that were not in the store, and those among
\* them whose exercise-set or split request fails
NewActivities(d, activities) ==
    {i \in 1..Len(activities) : ~ActivityExists(d, activities[i].activity_id)}

DetailFails(info) ==
    /\ info.detail = "error"
    /\ info.activity_type \in STRENGTH_TYPES \cup CARDIO_TYPES

\* C19: an error in an activity's detail sync is a warning and nothing
\* more: every activity of the date is stored, each new one is counted as
\* completed, failed does not move, the date's task completes and the run
\* goes on with the dates that follow.
C19_DetailErrorsAreWarnings ==
    [][ \A sync_date \in Dates :
          (sync_pc = "running" /\ it_calls' = Append(it_calls, sync_date)) =>
            LET new == NewActivities(db, it_last')
                failing == {i \in new :
                    DetailFails(remote_details'[it_last'[i].activity_id])}
            IN /\ \A i \in 1..Len(it_last') :
                     ActivityExists(db', it_last'[i].activity_id)
               /\ stats'.completed = stats.completed + Cardinality(new)
               /\ stats'.failed = stats.failed
               /\ events' =
                     Append(events \o [j \in 1..Cardinality(failing) |->
                                [event |-> "warning", kind |-> ACTIVITIES,
                                 date |-> sync_date]],
                            [event |-> "task_complete", kind |-> ACTIVITIES,
                             date |-> sync_date])
               /\ todo' = Tail(todo)
               /\ sync_pc' = "running"
      ]_vars

\* C19 witness: the first activity of a date failed its detail request and
\* was stored with the one after it; an earlier date was done afterwards
\* and nothing counts as failed.
C19_Witness ==
    /\ stats.failed = 0
    /\ stats.completed >= 2
    /\ \E i, j \in 1..Len(it_returned) :
          /\ i < j
          /\ it_returned[i].activity_id \in DOMAIN remote_details
          /\ DetailFails(remote_details[it_returned[i].activity_id])
          /\ ExtractActivityDate(it_returned[i])
                = ExtractActivityDate(it_returned[j])
          /\ ActivityExists(db, it_returned[i].activity_id)
          /\ ActivityExists(db, it_returned[j].activity_id)
    /\ \E i, k \in 1..Len(events) :
          /\ i < k
          /\ events[i].event = "warning"
          /\ events[k].event = "task_complete"
          /\ events[k].kind = ACTIVITIES
          /\ events[k].date # events[i].date

\* the entries of an "entries" response, each with a sample_pk of its own
BodyEntries == 2

\* the body-composition phase of the run in hand is done in this step
BodyStep ==
    /\ sync_pc = "running"
    /\ todo # <<>>
    /\ Head(todo).phase = "body"
    /\ todo' = Tail(todo)

\* C20: when the vendor has N entries with distinct sample_pk for the range
\* and the store has none, the first sync_range stores the N; a second one
\* over the same range stores none and counts N skipped.
C20_BodyCompositionStoredOnce ==
    [][ (/\ BodyStep
         /\ remote_body'[<<sync_args.start_date, sync_args.end_date>>]
               = "entries")
        => IF runs = 1
           THEN /\ Cardinality(db'.body_composition) = BodyEntries
                /\ stats'.completed = stats.completed + BodyEntries
                /\ stats'.failed = stats.failed
           ELSE (/\ first_run.args.start_date = sync_args.start_date
                 /\ first_run.args.end_date = sync_args.end_date
                 /\ BODY_COMPOSITION \in SeqToSet(first_run.args.metrics))
                => /\ db'.body_composition = db.body_composition
                   /\ stats'.skipped = stats.skipped + BodyEntries
                   /\ stats'.failed = stats.failed
      ]_vars

\* ---- activities, their laps and the backfill of the distance -------------

MaxSplitActivities == 2
MaxSplits == 2

SplitActivityIds == 1..MaxSplitActivities

\* what the list item of an activity carries
ListItems ==
    { ActivityData(a, 1, "running", x[1], x[2], x[3]) :
        a \in SplitActivityIds,
        x \in {<<Null, Null, Null>>, <<Null, 5, Null>>, <<5, 5, 5>>} }

\* the laps a splits response or a store_activity_splits call may carry
Laps ==
    { Split(1, "ACTIVE", 1, 1, Null), Split(2, "ACTIVE", 2, Null, 1),
      Split(2, "REST", 4, 4, 4) }

LapLists ==
    UNION { [1..n -> Laps] : n \in 1..MaxSplits }

SplitsInit ==
    /\ db = EmptyDB
    /\ hm_prev = NoCall
    /\ hm_last = NoCall
    /\ db_call = NoDbCall
    /\ BuilderIdle
    /\ LateIdle
    /\ TsIdle
    /\ AuthIdle
    /\ HttpIdle
    /\ FileIdle
    /\ IterIdle
    /\ SyncIdle

SplitsOthers ==
    <<iterVars, hmVars, syncVars, tsVars, authVars, httpVars, fileVars,
      builderVars, strengthVars, loopVars, loginVars>>

\* store_activity(user, activity_data), as _store_activities calls it for an
\* activity that is not stored yet
StoreActivityCall ==
    \E activity_data \in ListItems :
        /\ ~ActivityExists(db, activity_data.activity_id)
        /\ db' = StoreActivityData(db, activity_data)
        /\ db_call' = [NoDbCall EXCEPT !.op = "store_activity",
                                       !.targets = {activity_data.activity_id}]
        /\ UNCHANGED SplitsOthers

\* store_activity_splits(user, activity_id, splits) called on the database
StoreActivitySplitsCall ==
    \E activity_id \in SplitActivityIds, splits \in LapLists :
        /\ ActivityExists(db, activity_id)
        /\ db' = StoreActivitySplits(db, activity_id, splits)
        /\ db_call' = [NoDbCall EXCEPT !.op = "store_activity_splits",
                                       !.targets = {activity_id}]
        /\ UNCHANGED SplitsOthers

\* _sync_activity_splits(user, activity_id) of a stored cardio activity,
\* the splits request answering with the given laps (none: an empty
\* response)
SyncActivitySplitsCall ==
    \E activity_id \in SplitActivityIds, splits \in LapLists \cup {<<>>} :
        /\ ActivityExists(db, activity_id)
        /\ db' = IF ActivityHasSplits(db, activity_id) THEN db
                 ELSE SyncSplitsData(db, activity_id, splits)
        /\ db_call' = [NoDbCall EXCEPT !.op = "_sync_activity_splits",
                                       !.targets = {activity_id},
                                       !.splits = splits]
        /\ UNCHANGED SplitsOthers

\* backfill_activity_distance_from_splits(user)
BackfillCall ==
    LET r == BackfillActivityDistanceFromSplits(db)
    IN /\ db' = r.db
       /\ db_call' = [NoDbCall EXCEPT
                         !.op = "backfill_activity_distance_from_splits",
                         !.targets = ActivitiesWithSplitsMissingDistance(db),
                         !.stats = r.stats]
       /\ UNCHANGED SplitsOthers

SplitsNext ==
    \/ StoreActivityCall
    \/ StoreActivitySplitsCall
    \/ SyncActivitySplitsCall
    \/ BackfillCall

SpecSplits == SplitsInit /\ [][SplitsNext]_vars

\* the sum of a column over the ACTIVE laps stored for an activity
ActiveTotal(d, activity_id, column) ==
    SumOf(SelectSeq(GetActivitySplits(d, activity_id),
                    LAMBDA lap : lap.intensity_type = "ACTIVE"), column)

TotalColumns == {"distance_meters", "calories", "elevation_gain"}

ResponseTotal(splits, column) ==
    SumOf(SelectSeq(splits, LAMBDA lap : lap.intensity_type = "ACTIVE"),
          column)

MaxLedgerDates == 2

LedgerKeys == (1..MaxLedgerDates) \X {DAILY_SUMMARY}

LedgerInit == SplitsInit

\* create_sync_status(user, sync_date, metric_type, status)
CreateSyncStatusCall ==
    \E k \in LedgerKeys, status \in {"pending"} :
        /\ db' = CreateSyncStatus(db, k[1], k[2], status)
        /\ db_call' = [NoDbCall EXCEPT !.op = "create_sync_status",
                                       !.targets = {k},
                                       !.result = status]
        /\ UNCHANGED SplitsOthers

\* update_sync_status(user, sync_date, metric_type, status, error_message)
UpdateSyncStatusCall ==
    \E k \in LedgerKeys, status \in Statuses,
       error_message \in {"", ErrorMessage("error")} :
        /\ db' = UpdateSyncStatus(db, k[1], k[2], status, error_message)
        /\ db_call' = [NoDbCall EXCEPT !.op = "update_sync_status",
                                       !.targets = {k}]
        /\ UNCHANGED SplitsOthers

\* the reset command, with or without --force, the answer typed when asked
CmdResetCall ==
    \E force \in BOOLEAN, response \in {"y", "n"} :
        LET r == CmdReset(db, force, response)
        IN /\ db' = r.db
           /\ db_call' = [NoDbCall EXCEPT !.op = "cmd_reset",
                                          !.result = r.printed]
           /\ UNCHANGED SplitsOthers

LedgerNext ==
    \/ CreateSyncStatusCall
    \/ UpdateSyncStatusCall
    \/ CmdResetCall
    \/ StoreActivityCall

SpecLedger == LedgerInit /\ [][LedgerNext]_vars

\* C23 as stated: create_sync_status(user, date, kind, "pending") on a key
\* that has a ledger row is a no-op: the row's state, synced_at and
\* error_message are unchanged.
C23_CreateOnExistingRowIsNoOp ==
    [][\A k \in LedgerKeys :
          (/\ db_call'.op = "create_sync_status"
           /\ db_call'.targets = {k}
           /\ db_call'.result = "pending"
           /\ SyncStatusExists(db, k[1], k[2]))
          => db'.sync_status[k] = db.sync_status[k]]_vars

\* C23, amended: create_sync_status(user, date, kind, "pending") on a key
\* that has a ledger row sets the row's state to PENDING and leaves its
\* synced_at and error_message, every other ledger row and every data row
\* unchanged.
C23_CreateOnExistingRowSetsPending ==
    [][\A k \in LedgerKeys :
          (/\ db_call'.op = "create_sync_status"
           /\ db_call'.targets = {k}
           /\ db_call'.result = "pending"
           /\ SyncStatusExists(db, k[1], k[2]))
          => db' = [db EXCEPT !.sync_status[k].status = "pending"]]_vars

\* a row that an update had completed, with an error message of an earlier
\* failure, is pending after a create_sync_status call on its key
C23_Witness ==
    /\ db_call.op = "create_sync_status"
    /\ \E k \in db_call.targets :
          /\ SyncStatusExists(db, k[1], k[2])
          /\ db.sync_status[k] = [status |-> "pending", synced_at |-> TRUE,
                                  error_message |-> ErrorMessage("error")]

\* C24: a reset that is carried out (forced, or confirmed with y) changes
\* every ledger row in state FAILED to PENDING and leaves the rows in every
\* other state and all data rows unchanged; a reset that is declined, or
\* finds no FAILED row, changes nothing.
C24_ResetFailedToPending ==
    [][db_call'.op = "cmd_reset"
         => /\ DOMAIN db'.sync_status = DOMAIN db.sync_status
            /\ \A k \in DOMAIN db.sync_status :
                  IF db.sync_status[k].status = "failed"
                        /\ db_call'.result = "Reset"
                  THEN db'.sync_status[k].status = "pending"
                  ELSE db'.sync_status[k] = db.sync_status[k]
            /\ db_call'.result = "Reset cancelled" => db' = db
            /\ db_call'.result = "No failed records found"
                  => \A k \in DOMAIN db.sync_status :
                        db.sync_status[k].status # "failed"
            /\ \A t \in DOMAIN db \ {"sync_status"} : db'[t] = db[t]]_vars

\* a reset was carried out on a ledger that had a failed row and a skipped
\* row, besides a stored activity: the failed row is pending, its error
\* message gone, the skipped row is as it was
C24_Witness ==
    /\ db_call.op = "cmd_reset"
    /\ db_call.result = "Reset"
    /\ DOMAIN db.activities # {}
    /\ \E k1, k2 \in DOMAIN db.sync_status :
          /\ db.sync_status[k1] = [status |-> "pending", synced_at |-> FALSE,
                                   error_message |-> ""]
          /\ db.sync_status[k2].status = "skipped"
          /\ db.sync_status[k2].synced_at

\* ---- sync_range over a kind whose readings may lack a value ---------------

\* the metrics arguments: respiration, alone or with the daily summary.  The
\* response of the respiration endpoint is a summary field and the array of
\* its readings, as the heart-rate one.
RespirationKindLists == {<<RESPIRATION>>, <<DAILY_SUMMARY, RESPIRATION>>}

SyncRangeTimeseries ==
    \E range \in Ranges, metrics \in RespirationKindLists :
        SyncRangeCall(range[1], range[2], metrics)

SyncTimeseriesNext ==
    \/ SMInitialize
    \/ SyncRangeTimeseries
    \/ SyncMetricForDate
    \/ EndSync

SpecSyncTimeseries == SyncInit /\ [][SyncTimeseriesNext]_vars

\* the response made the store of the task raise
StoreRaised(data, metric_type) ==
    /\ data.outcome = "ok"
    /\ metric_type \in AllTimeseriesKinds
    /\ StoreTimeseriesRaises(
          ExtractTimeseriesFor(data.heart_rate_values_array, metric_type))

\* what a task that did not raise has stored of its response: a summary
\* field, a point of the time series
ActuallyStored(data, metric_type) ==
    \/ \E c \in DOMAIN ExtractMetricData(data, metric_type) :
          ExtractMetricData(data, metric_type)[c] # None
    \/ /\ metric_type \in AllTimeseriesKinds
       /\ \E i \in 1..Len(data.heart_rate_values_array) :
             data.heart_rate_values_array[i].value # None

\* C29: for each per-date task (D, K) not already COMPLETED the ledger row
\* is FAILED with the error message when the fetch or the store raised;
\* otherwise it is COMPLETED exactly when at least one summary field or
\* time-series point was actually stored, and SKIPPED when nothing was.
C29_CompletedIffStored ==
    [][(MetricTaskStep /\ requests' # requests) =>
          LET D == Head(todo).date
              K == Head(todo).kind
              data == remote_metrics'[<<D, K>>]
              row == db'.sync_status[<<D, K>>]
          IN IF data.outcome # "ok" \/ StoreRaised(data, K)
             THEN /\ row.status = "failed"
                  /\ row.error_message # ""
             ELSE /\ row.status = "completed" <=> ActuallyStored(data, K)
                  /\ row.status = "skipped" <=> ~ActuallyStored(data, K)
      ]_vars

\* ==== claims about the order of a run and its ledger ======================

\* C26: in a run with ACTIVITIES the activities phase first resets the
\* iterator and then calls get_activities_for_date on the dates of the
\* range in strictly descending order, whichever way the range was given.
C26_ActivitiesNewestFirst ==
    /\ it_calls # <<>> => it_session = "reset"
    /\ \A i, j \in 1..Len(it_calls) : i < j => it_calls[i] > it_calls[j]

\* the place of a reported event in a run: the start, a per-date kind, the
\* activities, the body composition, the end
PhaseOf(e) ==
    IF e.event = "start_sync" THEN 0
    ELSE IF e.event = "end_sync" THEN 4
    ELSE IF e.kind = ACTIVITIES THEN 2
    ELSE IF e.kind = BODY_COMPOSITION THEN 3
    ELSE 1

BodyRequests ==
    {i \in 1..Len(requests) : requests[i].kind = BODY_COMPOSITION}

\* C27: within one run every per-date metric task precedes the first call
\* of the activities phase, and the body-composition fetch, of which there
\* is one, comes after both phases.
C27_PhasesInOrder ==
    /\ \A i, j \in 1..Len(events) :
          i < j => PhaseOf(events[i]) <= PhaseOf(events[j])
    /\ Cardinality(BodyRequests) <= 1
    /\ \A i \in BodyRequests : i = Len(requests)
    /\ (sync_pc = "running" /\ todo # <<>>)
          => /\ Head(todo).phase = "metric"
                => \A i \in 1..Len(events) : PhaseOf(events[i]) <= 1
             /\ Head(todo).phase \in {"reset", "activities"}
                => \A i \in 1..Len(events) : PhaseOf(events[i]) <= 2
    /\ (sync_result = "returned" /\ sync_pc = "idle"
           /\ BODY_COMPOSITION \in SeqToSet(sync_args.metrics))
          => Cardinality(BodyRequests) = 1

\* a run over two dates and every kind has returned: its per-date tasks,
\* then its activities calls, then its one body-composition fetch
C27_Witness ==
    /\ sync_result = "returned"
    /\ sync_pc = "idle"
    /\ sync_args.metrics = AllMetricTypes
    /\ DateCount(sync_args.start_date, sync_args.end_date) = 2
    /\ Len(it_calls) = 2
    /\ Cardinality(BodyRequests) = 1
    /\ \E i, j \in 1..Len(events) :
          /\ i < j
          /\ PhaseOf(events[i]) = 1
          /\ PhaseOf(events[j]) = 2

\* C28: within a sync run the ledger states go forward only: a row in
\* PENDING may move to COMPLETED, SKIPPED or FAILED, a row in COMPLETED
\* stays as it is, no row is removed and no row is moved back to PENDING.
C28_LedgerForwardOnly ==
    [][\A k \in DOMAIN db.sync_status :
          /\ k \in DOMAIN db'.sync_status
          /\ db'.sync_status[k].status \in Statuses
          /\ db'.sync_status[k].status = "pending"
                => db.sync_status[k] = db'.sync_status[k]
          /\ db.sync_status[k].status = "completed"
                => db'.sync_status[k] = db.sync_status[k]]_vars

\* a second run over the dates of the first, with a kind more, has made
\* its ledger rows and attempted a task: the rows the first run left FAILED
\* and SKIPPED are there and not PENDING, a row of the new kind has moved
\* from PENDING to COMPLETED
C28_Witness ==
    /\ runs = 2
    /\ first_run.returned
    /\ sync_pc = "running"
    /\ \E k1, k2 \in DOMAIN first_run.db.sync_status :
          /\ first_run.db.sync_status[k1].status = "failed"
          /\ first_run.db.sync_status[k2].status = "skipped"
          /\ db.sync_status[k1].status # "pending"
          /\ db.sync_status[k2].status # "pending"
    /\ \E k \in DOMAIN db.sync_status \ DOMAIN first_run.db.sync_status :
          db.sync_status[k].status = "completed"

\* ---- the workout builder ---------------------------------------------------

MaxBuilderCalls == 5
MaxRepeats == 2
MaxIterations == 2

ParentStepTypes == {"warmup", "interval"}
RepeatStepTypes == {"interval", "recovery"}

BuilderInit ==
    /\ workout_builder = NewWorkoutBuilder
    /\ wb_calls = <<>>
    /\ wb_returned = 0
    /\ db = EmptyDB
    /\ hm_prev = NoCall
    /\ hm_last = NoCall
    /\ db_call = NoDbCall
    /\ LateIdle
    /\ TsIdle
    /\ AuthIdle
    /\ HttpIdle
    /\ FileIdle
    /\ IterIdle
    /\ SyncIdle

BuilderOthers ==
    <<iterVars, storeVars, hmVars, syncVars, tsVars, authVars, httpVars,
      fileVars, callVars, strengthVars, loopVars, loginVars>>

Call(on, method, arg) == [on |-> on, method |-> method, arg |-> arg]

\* a step method called on the parent
BuilderStepCall ==
    \E step_type \in ParentStepTypes :
        /\ Len(wb_calls) < MaxBuilderCalls
        /\ workout_builder' = BuilderStep(workout_builder, step_type)
        /\ wb_calls' = Append(wb_calls, Call(0, "step", step_type))
        /\ wb_returned' = 0
        /\ UNCHANGED BuilderOthers

\* repeat(iterations) called on the parent
BuilderRepeatCall ==
    \E iterations \in 1..MaxIterations :
        /\ Len(wb_calls) < MaxBuilderCalls
        /\ Len(workout_builder.repeats) < MaxRepeats
        /\ workout_builder' = BuilderRepeat(workout_builder, iterations)
        /\ wb_calls' = Append(wb_calls, Call(0, "repeat", ""))
        /\ wb_returned' = Len(workout_builder.repeats) + 1
        /\ UNCHANGED BuilderOthers

\* a step method called on a repeat builder (one that repeat() returned,
\* whether end_repeat was called on it or not)
RepeatStepCall ==
    \E r \in 1..Len(workout_builder.repeats),
       step_type \in RepeatStepTypes :
        /\ Len(wb_calls) < MaxBuilderCalls
        /\ workout_builder' = RepeatStep(workout_builder, r, step_type)
        /\ wb_calls' = Append(wb_calls, Call(r, "step", step_type))
        /\ wb_returned' = r
        /\ UNCHANGED BuilderOthers

\* end_repeat() called on a repeat builder
EndRepeatCall ==
    \E r \in 1..Len(workout_builder.repeats) :
        /\ Len(wb_calls) < MaxBuilderCalls
        /\ workout_builder' = EndRepeat(workout_builder, r)
        /\ wb_calls' = Append(wb_calls, Call(r, "end_repeat", ""))
        /\ wb_returned' = 0
        /\ UNCHANGED BuilderOthers

BuilderNext ==
    \/ BuilderStepCall
    \/ BuilderRepeatCall
    \/ RepeatStepCall
    \/ EndRepeatCall

SpecBuilder == BuilderInit /\ [][BuilderNext]_vars

\* the step types of the step calls made on a builder, in call order
StepCallsOn(calls, on) ==
    LET made == SelectSeq(calls, LAMBDA c : c.on = on /\ c.method = "step")
    IN [i \in 1..Len(made) |-> made[i].arg]

\* the calls that add an entry to the parent, in call order
ParentAdds(calls) ==
    SelectSeq(calls, LAMBDA c : \/ c.on = 0 /\ c.method = "step"
                               \/ c.method = "end_repeat")

\* C25: the parent's steps are in the order of the calls that added them;
\* an end_repeat() call on the builder that repeat(n) returned appends to
\* the parent exactly one RepeatGroup, of n iterations and of the steps
\* added to that builder since repeat(n), in their order, leaves the
\* parent's earlier entries as they were, and returns the parent.
C25_RepeatGroupAppended ==
    [][ /\ Len(workout_builder'.steps) = Len(ParentAdds(wb_calls'))
        /\ \A i \in 1..Len(workout_builder'.steps) :
              LET entry == workout_builder'.steps[i]
                  c == ParentAdds(wb_calls')[i]
              IN IF c.method = "step"
                 THEN entry = StepEntry(c.arg)
                 ELSE /\ entry.entry = "RepeatGroup"
                      /\ entry.steps_of = c.on
        /\ \A r \in 1..Len(workout_builder.repeats) :
              wb_calls' = Append(wb_calls, Call(r, "end_repeat", ""))
              => /\ Len(workout_builder'.steps)
                       = Len(workout_builder.steps) + 1
                 /\ SubSeq(workout_builder'.steps, 1,
                           Len(workout_builder.steps)) = workout_builder.steps
                 /\ LET group == workout_builder'.steps[
                                     Len(workout_builder'.steps)]
                    IN /\ group.entry = "RepeatGroup"
                       /\ group.iterations
                             = workout_builder.repeats[r].iterations
                       /\ GroupSteps(workout_builder', group)
                             = StepCallsOn(wb_calls, r)
                 /\ wb_returned' = 0
      ]_vars

\* warmup, repeat(2), interval, recovery, end_repeat: the parent holds the
\* warmup and then one group of two iterations with the two steps in order
C25_Witness ==
    /\ Len(wb_calls) = 5
    /\ wb_calls[5].method = "end_repeat"
    /\ wb_returned = 0
    /\ Len(workout_builder.steps) = 2
    /\ workout_builder.steps[1] = StepEntry("warmup")
    /\ workout_builder.steps[2].entry = "RepeatGroup"
    /\ workout_builder.steps[2].iterations = 2
    /\ GroupSteps(workout_builder, workout_builder.steps[2])
          = <<"interval", "recovery">>

\* ---- a run that an exception or an interruption ends ----------------------

\* what can leave the try block of sync_range: an interruption of the
\* process, an exception no callee handles (a database error in the ledger
\* calls of an except clause, say)
Exceptions == {"KeyboardInterrupt", "Exception"}

\* the one sync_range call of the manager
SyncRangeOnce ==
    /\ runs = 0
    /\ SyncRangeAll

\* an exception is raised in the try block of sync_range, between two of
\* its calls
RaiseInSync ==
    \E exception \in Exceptions :
        LET r == RaiseFromTry(events, exception) IN
        /\ sync_pc = "running"
        /\ sync_pc' = "idle"
        /\ events' = r.events
        /\ sync_result' = r.sync_result
        /\ UNCHANGED <<iterVars, storeVars, hmVars, otherVars, remoteVars,
                       api_client, sync_args, todo, stats, runs, requests,
                       first_run>>

SyncExitNext ==
    \/ SMInitialize
    \/ SyncRangeOnce
    \/ SyncMetricForDateAll
    \/ SyncActivitiesReset
    \/ SyncActivitiesForDate
    \/ SyncBodyCompositionBatch
    \/ EndSync
    \/ RaiseInSync

SpecSyncExit == SyncAllInit /\ [][SyncExitNext]_vars

EndSyncs == {i \in 1..Len(events) : events[i].event = "end_sync"}

\* C22: once start_sync has been signalled, end_sync is invoked exactly once
\* on every way out of sync_range - a return, an exception, an interruption
\* - and not before; an exception or interruption leaves sync_range as
\* that exception, a return happens only with every task attempted; a call
\* that fails before start_sync signals neither.
C22_EndSyncOnEveryExit ==
    [][ /\ (sync_pc = "running" /\ sync_pc' = "idle")
            => /\ events' = Append(events, EndSyncEvent)
               /\ sync_result' \in Exceptions \cup {"returned"}
               /\ todo # <<>> => sync_result' \in Exceptions
        /\ sync_pc' = "running"
            => /\ events' # <<>>
               /\ events'[1].event = "start_sync"
               /\ EndSyncs' = {}
        /\ (sync_pc' = "idle" /\ events' # <<>>)
            => /\ EndSyncs' = {Len(events')}
               /\ events'[1].event = "start_sync"
        /\ sync_result' \in {"RuntimeError", "ValueError"} => events' = <<>>
      ]_vars

\* an interruption has ended a run after its first tasks: end_sync was
\* signalled once, last, and the interruption left sync_range
C22_Witness ==
    /\ sync_pc = "idle"
    /\ sync_result = "KeyboardInterrupt"
    /\ todo # <<>>
    /\ Len(requests) >= 2
    /\ EndSyncs = {Len(events)}
    /\ Len(events) >= 4

\* the activities of the call that the store had before the call
KnownActivities(d, activities) ==
    {i \in 1..Len(activities) : ActivityExists(d, activities[i].activity_id)}

\* C31: in the activities phase an activity the store already has is
\* skipped: its row, detail columns and details_synced included, its sets
\* and its splits stay as they were, no detail request is sent for it and
\* skipped grows by one for each such activity.
C31_ExistingActivitySkipped ==
    [][ \A sync_date \in Dates :
          (sync_pc = "running" /\ it_calls' = Append(it_calls, sync_date)) =>
            LET known == KnownActivities(db, it_last')
                known_ids == {it_last'[i].activity_id : i \in known}
            IN /\ \A id \in DOMAIN db.activities :
                     /\ ActivityExists(db', id)
                     /\ db'.activities[id] = db.activities[id]
                     /\ (id \in db'.exercise_sets) = (id \in db.exercise_sets)
                     /\ ActivityHasSplits(db', id) = ActivityHasSplits(db, id)
               /\ stats'.skipped = stats.skipped + Cardinality(known)
               /\ \A k \in Len(requests) + 1 .. Len(requests') :
                     requests'[k].activity_id \notin known_ids
      ]_vars

\* C31 witness: a later run, with a task of its own completed, met on one
\* date two activities the store had, one of them with its details synced,
\* and skipped them.
C31_Witness ==
    /\ runs >= 2
    /\ stats.skipped >= 1
    /\ stats.completed >= 1
    /\ Len(it_last) >= 2
    /\ \A i \in 1..Len(it_last) : ActivityExists(db, it_last[i].activity_id)
    /\ \E i \in 1..Len(it_last) :
          db.activities[it_last[i].activity_id].details_synced

\* C32: the iterator signals the end of the data (has_more_data false) when
\* a batch comes back shorter than the batch size; a batch of exactly the
\* batch size leaves it true, and the request after a full batch is made at
\* the offset advanced by that batch.
C32_ShortBatchEndsData ==
    it_requests # <<>> =>
        LET n == Len(it_requests)
            last == it_requests[n]
        IN /\ last \notin list_fails =>
                 iterator.has_more_data = (BatchLen(last) = BatchSize)
           /\ \A k \in 1..(n - 1) :
                 /\ BatchLen(it_requests[k]) = BatchSize
                 /\ it_requests[k + 1] = it_requests[k] + BatchSize

\* C32 witness: a full batch was followed by a request at the advanced
\* offset, which returned a shorter batch that was not empty and ended the
\* data.
C32_Witness ==
    /\ Len(it_requests) = 2
    /\ list_fails = {}
    /\ BatchLen(it_requests[1]) = BatchSize
    /\ it_requests[2] = BatchSize
    /\ BatchLen(it_requests[2]) \in 1..(BatchSize - 1)
    /\ ~iterator.has_more_data

\* C38: between two resets batch_offset is the number of activities fetched
\* so far and each batch is requested at start = batch_offset; against the
\* unchanged remote list the batches put together are the first
\* batch_offset activities of the remote list, each once and in the
\* remote order: the cache is the end of that prefix, the current activity
\* the one before the cache, and when the data ended with no request
\* failing the prefix is the whole list.
C38_OffsetCountsFetched ==
    LET n == Len(it_requests)
        offset == iterator.batch_offset
        cached == Len(iterator.activities_cache)
    IN /\ offset = FetchedBefore(it_requests, n + 1)
       /\ \A k \in 1..n : it_requests[k] = FetchedBefore(it_requests, k)
       /\ offset <= Len(remote_activities)
       /\ cached <= offset
       /\ iterator.activities_cache
             = SubSeq(remote_activities, offset - cached + 1, offset)
       /\ iterator.current_activity # NoActivity =>
             /\ offset - cached >= 1
             /\ iterator.current_activity = remote_activities[offset - cached]
       /\ (~iterator.has_more_data /\ NoRequestFailed) =>
             offset = Len(remote_activities)

\* C38 witness: two batches were fetched in one session, the second at the
\* offset the first left, and the whole remote list went through the
\* buffer.
C38_Witness ==
    /\ Len(it_requests) >= 2
    /\ NoRequestFailed
    /\ it_requests[2] = BatchSize
    /\ iterator.batch_offset = Len(remote_activities)
    /\ iterator.batch_offset > BatchSize
    /\ Len(it_returned) >= 2

\* ==== exercise sets and the strength summary ===============================

\* the sets an exerciseSets response may hold
MaxSets == 5

\* the strength activities of the store
StrengthIds == {1}

\* a set of an exerciseSets response
SetData(setType, repetitionCount, weight) ==
    [setType |-> setType, repetitionCount |-> repetitionCount,
     weight |-> weight]

\* the sets the vendor may report: with reps and weight, REST sets with and
\* without numbers, an ACTIVE set without a repetition count, a light one
SetOptions ==
    {SetData("ACTIVE", 10, 50000), SetData("ACTIVE", 8, 55000),
     SetData("ACTIVE", 6, 60000), SetData("REST", 10, 50000),
     SetData("REST", Null, Null), SetData("ACTIVE", Null, 50000),
     SetData("ACTIVE", 3, 250)}

\* get_exercise_sets(activity_id): it raises, or returns exerciseSets
SetResponses ==
    {[outcome |-> "error", exerciseSets |-> <<>>]}
    \cup {[outcome |-> "data", exerciseSets |-> l] :
             l \in UNION {[1..n -> SetOptions] : n \in 0..MaxSets}}

\* extract_exercise_sets: one dict per set, set_order its index from 0
ExtractExerciseSets(data) ==
    [i \in 1..Len(data.exerciseSets) |->
        [set_order |-> i - 1,
         set_type |-> data.exerciseSets[i].setType,
         repetition_count |-> data.exerciseSets[i].repetitionCount,
         weight_grams |-> data.exerciseSets[i].weight]]

\* x or 0
OrZero(x) == IF x = Null THEN 0 ELSE x

\* total_volume_grams / 1000: the kilograms and the grams left over
Kilograms(grams) == [kg |-> grams \div 1000, g |-> grams % 1000]

NoKilograms == [kg |-> Null, g |-> Null]

RECURSIVE TotalReps(_)
TotalReps(sets) ==
    IF sets = <<>> THEN 0
    ELSE OrZero(Head(sets).repetition_count) + TotalReps(Tail(sets))

RECURSIVE TotalVolumeGrams(_)
TotalVolumeGrams(sets) ==
    IF sets = <<>> THEN 0
    ELSE OrZero(Head(sets).weight_grams) * OrZero(Head(sets).repetition_count)
         + TotalVolumeGrams(Tail(sets))

IsActiveSet(s) == s.set_type = "ACTIVE"

\* a summary over every set, the REST sets too
SummaryOfAllSets(sets) ==
    [total_sets |-> Len(sets),
     total_reps |-> TotalReps(sets),
     total_weight_kg |-> Kilograms(TotalVolumeGrams(sets))]

\* calculate_strength_summary
CalculateStrengthSummary(sets) ==
    LET active_sets == SelectSeq(sets, IsActiveSet)
        total_volume_grams == TotalVolumeGrams(active_sets)
    IN [total_sets |-> Len(active_sets),
        total_reps |-> TotalReps(active_sets),
        total_weight_kg |-> IF total_volume_grams # 0
                            THEN Kilograms(total_volume_grams)
                            ELSE Kilograms(0)]

\* store_activity for a strength activity: no summary yet
StoreStrengthActivity(sd, activity_id) ==
    [sd EXCEPT !.activities =
        Upsert(@, activity_id,
               [total_sets |-> Null, total_reps |-> Null,
                total_weight_kg |-> NoKilograms, details_synced |-> FALSE])]

\* store_exercise_sets: session.merge of one row per set, keyed by
\* (activity_id, set_order)
RECURSIVE StoreExerciseSetRows(_, _, _)
StoreExerciseSetRows(sd, activity_id, sets) ==
    IF sets = <<>> THEN sd
    ELSE StoreExerciseSetRows(
            [sd EXCEPT !.exercise_sets =
                Upsert(@, <<activity_id, Head(sets).set_order>>,
                       [set_type |-> Head(sets).set_type,
                        repetition_count |-> Head(sets).repetition_count,
                        weight_grams |-> Head(sets).weight_grams])],
            activity_id, Tail(sets))

\* update_activity_details on the strength columns
UpdateStrengthDetails(sd, activity_id, details) ==
    IF activity_id \in DOMAIN sd.activities
    THEN LET row == sd.activities[activity_id]
         IN [sd EXCEPT !.activities[activity_id] =
                [c \in DOMAIN row |->
                    IF c = "details_synced" THEN TRUE
                    ELSE IF c \in DOMAIN details THEN details[c]
                    ELSE row[c]]]
    ELSE sd

\* _sync_exercise_sets: the rows and the summary when the endpoint gave
\* sets; an error is logged and swallowed
SyncExerciseSetsData(sd, activity_id, sets_data) ==
    IF sets_data.outcome = "error" THEN sd
    ELSE LET sets == ExtractExerciseSets(sets_data)
         IN IF sets = <<>> THEN sd
            ELSE UpdateStrengthDetails(
                    StoreExerciseSetRows(sd, activity_id, sets),
                    activity_id, CalculateStrengthSummary(sets))

\* _sync_activity_details of a strength activity
SyncStrengthDetails(sd, activity_id, sets_data) ==
    UpdateStrengthDetails(SyncExerciseSetsData(sd, activity_id, sets_data),
                          activity_id, << >>)

StrengthInit ==
    /\ strength_db = EmptyStrengthDB
    /\ db_call = NoDbCall
    /\ db = EmptyDB
    /\ hm_prev = NoCall
    /\ hm_last = NoCall
    /\ BuilderIdle
    /\ LoopIdle
    /\ LoginIdle
    /\ TsIdle
    /\ AuthIdle
    /\ HttpIdle
    /\ FileIdle
    /\ IterIdle
    /\ SyncIdle

StrengthOthers ==
    <<iterVars, storeVars, hmVars, syncVars, tsVars, authVars, httpVars,
      fileVars, callVars, builderVars, loopVars, loginVars>>

\* store_activity(user, activity_data) for a strength activity that is not
\* stored yet
StoreStrengthActivityCall ==
    \E activity_id \in StrengthIds :
        /\ activity_id \notin DOMAIN strength_db.activities
        /\ strength_db' = StoreStrengthActivity(strength_db, activity_id)
        /\ UNCHANGED StrengthOthers

\* _sync_activity_details(user, activity_id, "strength_training"), as the
\* sync calls it after store_activity and the backfill for an activity
\* whose details are not synced
SyncStrengthDetailsCall ==
    \E activity_id \in DOMAIN strength_db.activities :
        /\ ~strength_db.activities[activity_id].details_synced
        /\ \E sets_data \in SetResponses :
              strength_db' = SyncStrengthDetails(strength_db, activity_id,
                                                 sets_data)
        /\ UNCHANGED StrengthOthers

StrengthNext == StoreStrengthActivityCall \/ SyncStrengthDetailsCall

SpecStrength == StrengthInit /\ [][StrengthNext]_vars

\* the stored set rows of an activity
SetRowsOf(sd, activity_id) ==
    {k \in DOMAIN sd.exercise_sets : k[1] = activity_id}

ActiveRowsOf(sd, activity_id) ==
    {k \in SetRowsOf(sd, activity_id) : sd.exercise_sets[k].set_type = "ACTIVE"}

RECURSIVE RepsOfRows(_, _)
RepsOfRows(sd, keys) ==
    IF keys = {} THEN 0
    ELSE LET k == CHOOSE x \in keys : TRUE
         IN (IF sd.exercise_sets[k].repetition_count = Null THEN 0
             ELSE sd.exercise_sets[k].repetition_count)
            + RepsOfRows(sd, keys \ {k})

RECURSIVE GramsOfRows(_, _)
GramsOfRows(sd, keys) ==
    IF keys = {} THEN 0
    ELSE LET k == CHOOSE x \in keys : TRUE
             row == sd.exercise_sets[k]
         IN (IF row.repetition_count = Null \/ row.weight_grams = Null THEN 0
             ELSE row.weight_grams * row.repetition_count)
            + GramsOfRows(sd, keys \ {k})

SomeRequestFailed ==
    \E i \in 1..Len(it_requests) : it_requests[i] \in list_fails

\* C34: when an activities batch request failed, the failure shows in the
\* run's outcome: a date that has activities at the vendor which the failed
\* request left unfetched is counted or reported as failed, not reported as
\* completed with no activity.
C34_BatchFailureVisible ==
    [][ \A sync_date \in Dates :
          (/\ sync_pc = "running"
           /\ it_calls' = Append(it_calls, sync_date)
           /\ SomeRequestFailed'
           /\ it_last' = <<>>
           /\ \E i \in 1..Len(remote_activities) :
                 ExtractActivityDate(remote_activities[i]) = sync_date)
          => \/ stats'.failed = stats.failed + 1
             \/ events' = Append(events, [event |-> "task_failed",
                                          kind |-> ACTIVITIES,
                                          date |-> sync_date])
      ]_vars

\* ==== details_synced and the detail fetch =================================

\* get_activities_without_details: the activities whose details_synced is
\* false (the order and the limit left out)
GetActivitiesWithoutDetails(d) ==
    {activity_id \in DOMAIN d.activities :
        ~d.activities[activity_id].details_synced}

\* C35: an activity has details_synced = true only if its detail fetch
\* completed without error; an activity whose detail fetch failed keeps
\* details_synced = false and get_activities_without_details returns it.
C35_DetailsSyncedOnlyAfterFetch ==
    \A activity_id \in DOMAIN db.activities :
        (/\ activity_id \in DOMAIN remote_details
         /\ DetailFails(remote_details[activity_id]))
        => /\ ~db.activities[activity_id].details_synced
           /\ activity_id \in GetActivitiesWithoutDetails(db)

\* ==== a failed task tried again in a later run =============================

\* the kind lists of the runs that try a failed date again
RetryKindLists == {<<DAILY_SUMMARY>>, <<HEART_RATE>>}

SyncRangeRetry ==
    \E range \in Ranges, metrics \in RetryKindLists :
        SyncRangeCall(range[1], range[2], metrics)

\* between two runs the vendor's answers change: an outage ends, data
\* arrives or goes
VendorChanges ==
    /\ sync_pc = "idle"
    /\ remote_metrics # NoTable
    /\ remote_metrics' = NoTable
    /\ UNCHANGED <<iterVars, storeVars, hmVars, otherVars, remote_details,
                   remote_body, api_client, sync_pc, sync_args, todo, stats,
                   sync_result, runs, events, requests, first_run>>

SyncRetryNext ==
    \/ SMInitialize
    \/ SyncRangeRetry
    \/ SyncMetricForDate
    \/ EndSync
    \/ VendorChanges

SpecSyncRetry == SyncInit /\ [][SyncRetryNext]_vars

\* C36: a ledger row in state COMPLETED or SKIPPED carries no
\* error_message: when a FAILED row is tried again and ends COMPLETED or
\* SKIPPED the earlier message is cleared.
C36_NoErrorMessageOnceCompleted ==
    \A k \in DOMAIN db.sync_status :
        db.sync_status[k].status \in {"completed", "skipped"}
            => db.sync_status[k].error_message = ""

\* ==== the counters of a run over the per-date kinds ========================

Attempted(st) == st.completed + st.skipped + st.failed

\* C37: in a sync_range run over per-date kinds only, each (date, kind) task
\* adds one to exactly one of completed, skipped and failed and nothing
\* else changes the counters, so that the run has counted as many tasks as
\* it has gone through, and the stats it returns satisfy
\* completed + skipped + failed = total_tasks.
C37_OneCounterPerTask ==
    [][ /\ MetricTaskStep =>
              /\ Attempted(stats') = Attempted(stats) + 1
              /\ stats'.completed \in {stats.completed, stats.completed + 1}
              /\ stats'.skipped \in {stats.skipped, stats.skipped + 1}
              /\ stats'.failed \in {stats.failed, stats.failed + 1}
              /\ stats'.total_tasks = stats.total_tasks
        /\ (sync_pc = "running" /\ ~MetricTaskStep) => stats' = stats
        /\ (sync_pc = "idle" /\ sync_pc' = "running") =>
              /\ Attempted(stats') = 0
              /\ stats'.total_tasks = Len(todo')
              /\ stats'.total_tasks
                    = DateCount(sync_args'.start_date, sync_args'.end_date)
                        * Len(sync_args'.metrics)
        /\ sync_pc' = "running" =>
              Attempted(stats') + Len(todo') = stats'.total_tasks
        /\ (sync_pc = "running" /\ sync_pc' = "idle") =>
              /\ sync_result' = "returned"
              /\ Attempted(stats') = stats'.total_tasks
      ]_vars

\* C37 witness: a run over two dates and two kinds returned with one task
\* completed, one skipped and one failed among its four.
C37_Witness ==
    /\ sync_pc = "idle"
    /\ sync_result = "returned"
    /\ stats.total_tasks = 4
    /\ stats.completed >= 1
    /\ stats.skipped >= 1
    /\ stats.failed >= 1
    /\ Attempted(stats) = 4

\* ==== get_activities_for_date, one pass of its loop at a time ==============

\* one pass of the while loop of get_activities_for_date: [it, activities,
\* reqs, done] -- done when the pass leaves the loop
LoopPass(it, target_date, activities) ==
    IF it.current_activity = NoActivity
    THEN [it |-> it, activities |-> activities, reqs |-> <<>>, done |-> TRUE]
    ELSE LET branch == Branch(it.current_activity_date, target_date)
             a == AdvanceToNextActivity(it)
         IN IF branch = "skip"
            THEN [it |-> a.it, activities |-> activities, reqs |-> a.reqs,
                  done |-> ~a.ok]
            ELSE IF branch = "collect"
            THEN [it |-> a.it,
                  activities |-> Append(activities, it.current_activity),
                  reqs |-> a.reqs, done |-> ~a.ok]
            ELSE [it |-> it, activities |-> activities, reqs |-> <<>>,
                  done |-> TRUE]

\* SyncManager.initialize, between two calls
LoopInitialize == get_call.pc = "idle" /\ IterInitialize

\* reset(), between two calls
LoopReset == get_call.pc = "idle" /\ IterReset

\* get_activities_for_date(target_date) up to its loop: with no current
\* activity it advances, and returns the empty list when nothing is left
LoopGetBegin ==
    /\ get_call.pc = "idle"
    /\ it_session # "new"
    /\ Len(it_calls) < MaxCalls
    /\ \E target_date \in Dates :
        LET a == IF iterator.current_activity = NoActivity
                 THEN AdvanceToNextActivity(iterator)
                 ELSE [it |-> iterator, ok |-> TRUE, reqs |-> <<>>]
        IN /\ iterator' = a.it
           /\ it_requests' = it_requests \o a.reqs
           /\ it_calls' = Append(it_calls, target_date)
           /\ IF a.ok
              THEN /\ get_call' = [pc |-> "loop", target_date |-> target_date,
                                   activities |-> <<>>]
                   /\ UNCHANGED <<it_last, it_returned>>
              ELSE /\ get_call' = NoGetCall
                   /\ it_last' = <<>>
                   /\ UNCHANGED it_returned
    /\ UNCHANGED <<remote_activities, list_fails, it_session, it_reset_from,
                   storeVars, hmVars, syncVars, tsVars, authVars, httpVars,
                   fileVars, callVars, builderVars, strengthVars, loginVars>>

\* one pass of the loop; the pass that leaves it returns the list
LoopGetPass ==
    /\ get_call.pc = "loop"
    /\ LET p == LoopPass(iterator, get_call.target_date, get_call.activities)
       IN /\ iterator' = p.it
          /\ it_requests' = it_requests \o p.reqs
          /\ IF p.done
             THEN /\ get_call' = NoGetCall
                  /\ it_last' = p.activities
                  /\ it_returned' = it_returned \o p.activities
             ELSE /\ get_call' = [get_call EXCEPT !.activities = p.activities]
                  /\ UNCHANGED <<it_last, it_returned>>
    /\ UNCHANGED <<remote_activities, list_fails, it_calls, it_session,
                   it_reset_from, storeVars, hmVars, syncVars, tsVars,
                   authVars, httpVars, fileVars, callVars, builderVars,
                   strengthVars, loginVars>>

IterLoopNext == LoopInitialize \/ LoopReset \/ LoopGetBegin \/ LoopGetPass

SpecIterLoop == IterInit /\ [][IterLoopNext]_vars

\* a call that has begun runs on: the caller's thread goes through the
\* loop until the call returns
SpecIterLoopFair == SpecIterLoop /\ WF_vars(LoopGetPass)

\* ceil(n / d)
CeilDiv(n, d) == (n + d - 1) \div d

\* C39: every get_activities_for_date call terminates; between two resets
\* the iterator sends at most ceil(N / batch_size) + 1 list requests for N
\* remote activities, and once the end of the data has been signalled no
\* call sends a request.
C39_CallsTerminateRequestsBounded ==
    /\ [](Len(it_requests)
            <= CeilDiv(Len(remote_activities), BatchSize) + 1)
    /\ [][ (/\ ~iterator.has_more_data
            /\ (get_call.pc = "loop"
                  \/ Len(it_calls') = Len(it_calls) + 1))
           => it_requests' = it_requests ]_vars
    /\ (get_call.pc = "loop") ~> (get_call.pc = "idle")

\* C39 witness: a list of full batches took one request more than it has
\* batches, the last one empty, and a call made after the end of the data
\* was signalled returned with no request sent.
C39_Witness ==
    /\ get_call.pc = "idle"
    /\ Len(remote_activities) > 0
    /\ Len(remote_activities) % BatchSize = 0
    /\ Len(it_requests) = CeilDiv(Len(remote_activities), BatchSize) + 1
    /\ NoRequestFailed
    /\ ~iterator.has_more_data
    /\ Len(it_calls) >= 2
    /\ it_last = <<>>
    /\ it_returned # <<>>

\* ==== AuthClient.login and resume_login ====================================

\* what sso.login hands back or raises: the token pair, ("needs_mfa",
\* state) when a challenge meets return_on_mfa, LoginError for bad
\* credentials or a bad code, AuthError, or the network's APIError
SsoLoginOutcomes(return_on_mfa) ==
    {"tokens", "LoginError", "AuthError", "APIError"}
    \cup (IF return_on_mfa THEN {"needs_mfa"} ELSE {})

\* what sso.resume_login hands back or raises
SsoResumeOutcomes == {"tokens", "LoginError", "AuthError", "APIError"}

\* the tokens in memory
Tokens(oauth1_token, oauth2_token) ==
    [oauth1_token |-> oauth1_token, oauth2_token |-> oauth2_token]

\* the files after the first `done` file operations of a save
RECURSIVE SaveUpTo(_, _, _, _)
SaveUpTo(files, steps, args, done) ==
    IF done = 0 \/ steps = <<>> THEN files
    ELSE SaveUpTo(SaveStep(files, Head(steps), args), Tail(steps), args,
                  done - 1)

\* the file operations of a save of both tokens
BothSaveSteps == Len(SaveSteps(1, 1))

\* a login that drops the tokens it holds when it meets a challenge
AuthLoginClearsOnMfa(tm, files, result, n, done) ==
    IF result = "needs_mfa"
    THEN [tm |-> NoTokens, files |-> files, outcome |-> "needs_mfa"]
    ELSE IF result # "tokens"
    THEN [tm |-> tm, files |-> files, outcome |-> result]
    ELSE [tm |-> Tokens(n, IssuedToken(n)),
          files |-> SaveUpTo(files, SaveSteps(n, n),
                             [oauth1_token |-> n, oauth2_token |-> n], done),
          outcome |-> IF done = BothSaveSteps THEN "tokens" ELSE "OSError"]

\* AuthClient.login and resume_login once the SSO module has answered:
\* ("needs_mfa", state) is handed on, an exception leaves the method, a
\* token pair is set in the manager and then saved, the save doing `done`
\* of its file operations before an OSError ends it
AuthLogin(tm, files, result, n, done) ==
    IF result # "tokens"
    THEN [tm |-> tm, files |-> files, outcome |-> result]
    ELSE [tm |-> Tokens(n, IssuedToken(n)),
          files |-> SaveUpTo(files, SaveSteps(n, n),
                             [oauth1_token |-> n, oauth2_token |-> n], done),
          outcome |-> IF done = BothSaveSteps THEN "tokens" ELSE "OSError"]

\* the token files of a profile: none, or those of an earlier login
TokenFilesOf(n) ==
    IF n = 0 THEN [oauth1 |-> NoFile, oauth2 |-> NoFile]
    ELSE [oauth1 |-> [content |-> "token", token |-> n],
          oauth2 |-> [content |-> "token", token |-> n]]

\* AuthClient.__init__ on a profile with no token or with the tokens of an
\* earlier login
LoginInit ==
    /\ now = 0
    /\ minted \in {0, 1}
    /\ token_manager = (IF minted = 0 THEN NoTokens
                        ELSE Tokens(minted, IssuedToken(minted)))
    /\ token_files = TokenFilesOf(minted)
    /\ login_last = NoLogin
    /\ api_requests = <<>>
    /\ auth_last = NoRequest
    /\ save_todo = <<>>
    /\ save_args = NoSave
    /\ load_last = NoLoad
    /\ db = EmptyDB
    /\ hm_prev = NoCall
    /\ hm_last = NoCall
    /\ CallIdle
    /\ BuilderIdle
    /\ StrengthIdle
    /\ LoopIdle
    /\ TsIdle
    /\ HttpIdle
    /\ IterIdle
    /\ SyncIdle

LoginOthers ==
    <<iterVars, storeVars, hmVars, syncVars, tsVars, httpVars, callVars,
      builderVars, strengthVars, loopVars, now, api_requests, auth_last,
      save_todo, save_args, load_last>>

\* login(email, password, prompt_mfa, return_on_mfa)
LoginCall ==
    /\ minted < MaxTokens
    /\ \E return_on_mfa \in BOOLEAN :
       \E result \in SsoLoginOutcomes(return_on_mfa) :
       \E done \in 0..BothSaveSteps :
          LET r == AuthLogin(token_manager, token_files, result, minted + 1,
                             done)
          IN /\ token_manager' = r.tm
             /\ token_files' = r.files
             /\ minted' = IF result = "tokens" THEN minted + 1 ELSE minted
             /\ login_last' = [op |-> "login",
                               return_on_mfa |-> return_on_mfa,
                               outcome |-> r.outcome,
                               client_state |-> (r.outcome = "needs_mfa")]
    /\ UNCHANGED LoginOthers

\* resume_login(mfa_code, client_state) with the state a login returned
ResumeLoginCall ==
    /\ minted < MaxTokens
    /\ login_last.client_state
    /\ \E result \in SsoResumeOutcomes :
       \E done \in 0..BothSaveSteps :
          LET r == AuthLogin(token_manager, token_files, result, minted + 1,
                             done)
          IN /\ token_manager' = r.tm
             /\ token_files' = r.files
             /\ minted' = IF result = "tokens" THEN minted + 1 ELSE minted
             /\ login_last' = [op |-> "resume_login",
                               return_on_mfa |-> FALSE,
                               outcome |-> r.outcome,
                               client_state |-> (result # "tokens")]
    /\ UNCHANGED LoginOthers

\* logout(): the tokens are cleared, the files removed
LogoutCall ==
    /\ login_last.op # "logout"
    /\ token_manager' = NoTokens
    /\ token_files' = TokenFilesOf(0)
    /\ login_last' = [NoLogin EXCEPT !.op = "logout"]
    /\ UNCHANGED minted
    /\ UNCHANGED LoginOthers

LoginNext == LoginCall \/ ResumeLoginCall \/ LogoutCall

SpecLogin == LoginInit /\ [][LoginNext]_vars

\* a step that is a login or resume_login call
LoginStep == login_last'.op \in {"login", "resume_login"}

\* the step leaves the tokens in memory and the token files as they were
TokensUntouched ==
    /\ token_manager' = token_manager
    /\ token_files' = token_files

\* C40 as stated: a login with return_on_mfa that meets a challenge returns
\* ("needs_mfa", state) with the tokens in memory and the token files
\* unchanged; a login or resume_login call changes the tokens in memory or
\* the files only when it completes successfully.
C40_TokensOnlyOnSuccess ==
    [][ LoginStep =>
          /\ login_last'.outcome = "needs_mfa" =>
                /\ login_last'.op = "login"
                /\ login_last'.return_on_mfa
                /\ TokensUntouched
          /\ ~TokensUntouched => login_last'.outcome = "tokens"
      ]_vars

\* C40: a login with return_on_mfa that meets a challenge returns
\* ("needs_mfa", state) with the tokens in memory and the token files
\* unchanged, and so does a call the SSO module ends with an error; the
\* tokens are set in memory and written to the files only once the SSO
\* module has returned the token pair: a call that completes has both in
\* memory and in both files, a call whose save raises has them in memory
\* with the files as far as the save got.
C40_TokensOnlyAfterSsoSuccess ==
    [][ LoginStep =>
          /\ login_last'.outcome = "needs_mfa" =>
                /\ login_last'.op = "login"
                /\ login_last'.return_on_mfa
                /\ TokensUntouched
          /\ login_last'.outcome \in {"LoginError", "AuthError", "APIError"}
                => TokensUntouched
          /\ ~TokensUntouched => login_last'.outcome \in {"tokens", "OSError"}
          /\ login_last'.outcome \in {"tokens", "OSError"} =>
                /\ minted' = minted + 1
                /\ token_manager' = Tokens(minted', IssuedToken(minted'))
          /\ login_last'.outcome = "tokens" =>
                token_files' = TokenFilesOf(minted')
          /\ login_last'.outcome = "OSError" =>
                token_files' # TokenFilesOf(minted')
      ]_vars

\* C40 witness: a login on a client that held tokens returned needs_mfa
\* and left them in memory and in the files; the resume_login that
\* followed completed and both hold the new tokens.
C40_Witness ==
    /\ login_last.op = "resume_login"
    /\ login_last.outcome = "tokens"
    /\ minted = 2
    /\ token_manager = Tokens(2, IssuedToken(2))
    /\ token_files = TokenFilesOf(2)

====
